---- MODULE Spec2Model ----
(***************************************************************************)
(* Model of the Finance AI Co-Pilot.                                       *)
(*                                                                         *)
(* CustomerRAGEngine (src/src/data_processing/rag_engine.py):              *)
(* the in-memory engine (index, documents, customer_contexts), the two     *)
(* files save_index writes, one writer thread running build_vector_index / *)
(* save_index / load_index and one reader thread running                   *)
(* search_similar_interactions.                                            *)
(*                                                                         *)
(* Numbers: embedding vectors are 2-dimensional integer vectors; a         *)
(* normalised vector has length UnitLen, so an inner product of two        *)
(* normalised vectors is the cosine similarity scaled by UnitLen^2.        *)
(***************************************************************************)
EXTENDS Integers, Sequences, FiniteSets, TLC

VARIABLES
    index,              \* self.index
    documents,          \* self.documents
    customer_contexts,  \* self.customer_contexts
    fs,                 \* the files, by path
    filepath,           \* the filepath save_index and load_index are called with
    wpc,                \* where the writer thread is
    wloc,               \* locals of build_vector_index
    wret,               \* the writer's current or last call and what it returned
    pre,                \* the engine as it was when the writer's call began
    lastSave,           \* the engine as the last completed save_index saved it
    reader,             \* the reader thread: its place, locals and result
    insights,           \* what the pending get_customer_insights call returned
    agent,              \* the call of InvoiceFollowupAgent that is running
    match,              \* the call of ThreeWayMatchingAgent that is running
    vquery,             \* the call of VendorQueryAgent that is running
    cache               \* RedisCache: the Redis store by key, and its caller

\* The state of CustomerRAGEngine and of its callers
engine == <<index, documents, customer_contexts, fs, filepath,
            wpc, wloc, wret, pre, lastSave, reader, insights>>

\* The state of the agents and of the cache
others == <<agent, match, vquery, cache>>

vars == <<engine, others>>

(***************************************************************************)
(* Bounds                                                                  *)
(***************************************************************************)
\* rows a history is drawn from in SpecSearch: RecordAt(1..NumRecords)
NumRecords == 4
\* longest history read by the build in SpecSearch
MaxSearchDocs == 4
\* largest top_k passed to search
MaxTopK == 2
\* rows a history is drawn from in Spec and SpecPersist
NumLifeRecords == 2
\* longest history read by a rebuild in Spec and SpecPersist
MaxDocs == 2

(***************************************************************************)
(* Input data                                                              *)
(***************************************************************************)
\* customer_id arguments of search: None, the empty string, customer ids
\* (one of them, "C9", owning no record)
NoCustomer == "None"
CustomerArgs == {NoCustomer, "", "C1", "C2", "C9"}

Queries == {"overdue", "plan", "dispute"}

\* One row of communication_history.csv.
Row(cid, name, comm, date, type, content, sentiment, hours, result) ==
    [customer_id |-> cid, customer_name |-> name, communication_id |-> comm,
     date |-> date, type |-> type, content |-> content,
     sentiment |-> sentiment, response_time_hours |-> hours,
     payment_result |-> result]

\* The rows a history is drawn from.  Rows 3 and 4 render to the same
\* full_text and differ only in communication_id (the later row has the
\* smaller one); row 5 has their content and a later date.
RecordAt(i) ==
    CASE i = 1 -> Row("C1", "Acme", "COM1", 1, "email", "overdue", "positive", 10, "paid_full")
      [] i = 2 -> Row("C2", "Globex", "COM2", 3, "email", "dispute", "negative", 12, "paid_partial")
      [] i = 3 -> Row("C1", "Acme", "COM4", 2, "phone", "plan", "neutral", 50, "no_response")
      [] i = 4 -> Row("C1", "Acme", "COM3", 2, "phone", "plan", "neutral", 50, "no_response")
      [] i = 5 -> Row("C2", "Globex", "COM5", 4, "phone", "plan", "positive", 12, "paid_full")
      [] OTHER -> Row("C1", "Acme", "COM6", 5, "email", "dispute", "negative", 24, "payment_plan")

Records(n) == {RecordAt(i) : i \in 1..n}

\* Sequences of distinct rows among the first n, of length 1..len
RECURSIVE HistoriesOfLen(_, _)
HistoriesOfLen(n, len) ==
    IF len = 0 THEN {<<>>}
    ELSE {Append(h, r) : h \in HistoriesOfLen(n, len - 1), r \in Records(n)}

NoRepeat(h) == \A i, j \in 1..Len(h) : i # j => h[i] # h[j]

Histories(n, len) ==
    {h \in UNION {HistoriesOfLen(n, k) : k \in 1..len} : NoRepeat(h)}

(***************************************************************************)
(* create_customer_documents                                               *)
(***************************************************************************)
\* The f-string of lines 40-48: the rendered fields, in order.  The
\* customer_id and the communication_id are not part of the text.
FullText(row) ==
    <<row.customer_name, row.date, row.type, row.content, row.sentiment,
      row.response_time_hours, row.payment_result>>

Document(row) ==
    [customer_id |-> row.customer_id, customer_name |-> row.customer_name,
     communication_id |-> row.communication_id, date |-> row.date,
     type |-> row.type, content |-> row.content,
     sentiment |-> row.sentiment,
     response_time_hours |-> row.response_time_hours,
     payment_result |-> row.payment_result, full_text |-> FullText(row)]

create_customer_documents(comm_df) ==
    [i \in 1..Len(comm_df) |-> Document(comm_df[i])]

(***************************************************************************)
(* Embedding model and FAISS                                               *)
(***************************************************************************)
UnitLen == 5

\* SentenceTransformer.encode on one string: a fixed function of the text.
EncodeText(text) ==
    CASE text = "overdue" -> <<10, 0>>
      [] text = "plan" -> <<4, 3>>
      [] text = "dispute" -> <<0, 5>>
      [] OTHER -> <<3, 4>>

\* encode on a rendered document: the stand-in model reads the content line.
Encode(full_text) == EncodeText(full_text[4])

EncodeAll(docs) == [i \in 1..Len(docs) |-> Encode(docs[i].full_text)]

Dot(u, v) == u[1] * v[1] + u[2] * v[2]

ISqrt(n) == CHOOSE r \in 0..n : r * r <= n /\ (r + 1) * (r + 1) > n

\* faiss.normalize_L2 on one vector: scaled to length UnitLen; a zero vector
\* is left as it is.
NormalizeVec(v) ==
    LET n == ISqrt(Dot(v, v))
    IN IF n = 0 THEN v ELSE <<(v[1] * UnitLen) \div n, (v[2] * UnitLen) \div n>>

normalize_L2(embeddings) ==
    [i \in 1..Len(embeddings) |-> NormalizeVec(embeddings[i])]

\* self.index: None, or an IndexFlatIP holding its vectors in insertion order
NoIndex == [none |-> TRUE, vectors |-> <<>>]
IndexFlatIP(vs) == [none |-> FALSE, vectors |-> vs]

\* The score faiss reports for a missing neighbour (label -1): the lowest
\* float, below every inner product of two normalised vectors.
NegInfScore == -1000

\* IndexFlatIP.search for one query vector: k (score, label) pairs, labels
\* 0-based, best inner product first, equal scores in label order, padded
\* with (NegInfScore, -1) when the index holds fewer than k vectors.
\* FaissRank with the comparison of scores turned round (worst first)
FaissRankWorstFirst(vectors, q, i) ==
    1 + Cardinality({j \in 1..Len(vectors) :
            \/ Dot(vectors[j], q) < Dot(vectors[i], q)
            \/ Dot(vectors[j], q) = Dot(vectors[i], q) /\ j < i})

FaissRank(vectors, q, i) ==
    1 + Cardinality({j \in 1..Len(vectors) :
            \/ Dot(vectors[j], q) > Dot(vectors[i], q)
            \/ Dot(vectors[j], q) = Dot(vectors[i], q) /\ j < i})

FaissSearch(vectors, q, k) ==
    [p \in 1..k |->
        IF p <= Len(vectors)
        THEN LET i == CHOOSE j \in 1..Len(vectors) : FaissRank(vectors, q, j) = p
             IN [score |-> Dot(vectors[i], q), idx |-> i - 1]
        ELSE [score |-> NegInfScore, idx |-> -1]]

(***************************************************************************)
(* search_similar_interactions                                             *)
(***************************************************************************)
\* Python truthiness of the customer_id argument (line 125)
Truthy(customer_id) == customer_id # NoCustomer /\ customer_id # ""

\* self.documents[idx] with Python's indexing (a negative idx counts from
\* the end); only called with -Len(docs) <= idx < Len(docs)
PyItem(docs, idx) == IF idx >= 0 THEN docs[idx + 1] ELSE docs[Len(docs) + idx + 1]

Result(doc, score) ==
    [customer_id |-> doc.customer_id, customer_name |-> doc.customer_name,
     communication_id |-> doc.communication_id, date |-> doc.date,
     type |-> doc.type, content |-> doc.content, sentiment |-> doc.sentiment,
     response_time_hours |-> doc.response_time_hours,
     payment_result |-> doc.payment_result, full_text |-> doc.full_text,
     similarity_score |-> score]

\* The loop of lines 119-134 from hit p on, with the results so far.
\* Gives [status, results]; the status is "IndexError" when documents[idx]
\* is out of range (idx = -1 on an empty list).
\* SearchLoop without the customer test of lines 125-126
RECURSIVE SearchLoopNoFilter(_, _, _, _, _, _)
SearchLoopNoFilter(hits, p, docs, customer_id, top_k, results) ==
    IF p > Len(hits) THEN [status |-> "ok", results |-> results]
    ELSE LET idx == hits[p].idx IN
         IF idx < Len(docs)
         THEN IF idx < -Len(docs)
              THEN [status |-> "IndexError", results |-> results]
              ELSE LET r == Append(results, Result(PyItem(docs, idx), hits[p].score)) IN
                   IF Len(r) >= top_k
                   THEN [status |-> "ok", results |-> r]
                   ELSE SearchLoopNoFilter(hits, p + 1, docs, customer_id, top_k, r)
         ELSE SearchLoopNoFilter(hits, p + 1, docs, customer_id, top_k, results)

RECURSIVE SearchLoop(_, _, _, _, _, _)
SearchLoop(hits, p, docs, customer_id, top_k, results) ==
    IF p > Len(hits) THEN [status |-> "ok", results |-> results]
    ELSE LET idx == hits[p].idx IN
         IF idx < Len(docs)
         THEN IF idx < -Len(docs)
              THEN [status |-> "IndexError", results |-> results]
              ELSE LET doc == PyItem(docs, idx) IN
                   IF Truthy(customer_id) /\ doc.customer_id # customer_id
                   THEN SearchLoop(hits, p + 1, docs, customer_id, top_k, results)
                   ELSE LET r == Append(results, Result(doc, hits[p].score)) IN
                        IF Len(r) >= top_k
                        THEN [status |-> "ok", results |-> r]
                        ELSE SearchLoop(hits, p + 1, docs, customer_id, top_k, r)
         ELSE SearchLoop(hits, p + 1, docs, customer_id, top_k, results)

\* Lines 113-117: the hits for a query on an index
QueryHits(idx, query, top_k) ==
    FaissSearch(idx.vectors, NormalizeVec(EncodeText(query)), top_k * 3)

\* The whole call on one snapshot (idx, docs) of the engine
search_similar_interactions(idx, docs, query, customer_id, top_k) ==
    IF idx.none THEN [status |-> "ok", results |-> <<>>]
    ELSE SearchLoop(QueryHits(idx, query, top_k), 1, docs, customer_id, top_k, <<>>)

(***************************************************************************)
(* _build_customer_contexts                                                *)
(***************************************************************************)
RECURSIVE GCD(_, _)
GCD(a, b) == IF b = 0 THEN a ELSE GCD(b, a % b)

\* The float a / b (b > 0, a >= 0), kept exact as a reduced fraction
Ratio(a, b) ==
    LET g == GCD(a, b) IN [num |-> a \div g, den |-> b \div g]

\* comm_df[comm_df['customer_id'] == customer_id]: the customer's rows, in
\* the order of the history
RECURSIVE RowsOf(_, _)
RowsOf(comm_df, customer_id) ==
    IF comm_df = <<>> THEN <<>>
    ELSE LET rest == RowsOf(Tail(comm_df), customer_id) IN
         IF Head(comm_df).customer_id = customer_id
         THEN <<Head(comm_df)>> \o rest
         ELSE rest

RECURSIVE SumHours(_)
SumHours(rows) ==
    IF rows = <<>> THEN 0
    ELSE Head(rows).response_time_hours + SumHours(Tail(rows))

\* Line 90 with payment_plan taken for a success
SuccessfulOrPlan(row) ==
    row.payment_result \in {"paid_full", "paid_partial", "payment_plan"}

Successful(row) == row.payment_result \in {"paid_full", "paid_partial"}

RECURSIVE SuccessfulRows(_)
SuccessfulRows(rows) ==
    IF rows = <<>> THEN <<>>
    ELSE IF Successful(Head(rows))
         THEN <<Head(rows)>> \o SuccessfulRows(Tail(rows))
         ELSE SuccessfulRows(Tail(rows))

\* Series.mode().iloc[0]: mode() gives the most frequent values sorted, so
\* the first is the least of them in string order ("email" < "phone")
TypeOrder(t) == IF t = "email" THEN 1 ELSE 2

CountType(rows, t) == Cardinality({i \in 1..Len(rows) : rows[i].type = t})

ModeType(rows) ==
    LET types == {rows[i].type : i \in 1..Len(rows)}
        modes == {t \in types : \A u \in types : CountType(rows, u) <= CountType(rows, t)}
    IN CHOOSE t \in modes : \A u \in modes : TypeOrder(t) <= TypeOrder(u)

MaxDate(rows) ==
    CHOOSE d \in {rows[i].date : i \in 1..Len(rows)} :
        \A i \in 1..Len(rows) : rows[i].date <= d

\* The dictionary of lines 97-105 for one customer's rows (never empty)
CustomerContext(rows) ==
    LET successful_comms == SuccessfulRows(rows) IN
    [avg_response_time_hours |-> Ratio(SumHours(rows), Len(rows)),
     preferred_communication |-> ModeType(rows),
     payment_success_rate |-> Ratio(Len(successful_comms), Len(rows)),
     recent_sentiment |-> rows[Len(rows)].sentiment,
     effective_tones |->
        IF successful_comms # <<>>
        THEN [i \in 1..Len(successful_comms) |-> successful_comms[i].sentiment]
        ELSE <<"neutral">>,
     total_communications |-> Len(rows),
     last_communication_date |-> MaxDate(rows)]

\* self.customer_contexts after the loop of lines 84-105: the entries of the
\* customers of comm_df are overwritten, every other entry is kept.
build_customer_contexts(contexts, comm_df) ==
    LET ids == {comm_df[i].customer_id : i \in 1..Len(comm_df)} IN
    [c \in (DOMAIN contexts) \cup ids |->
        IF c \in ids THEN CustomerContext(RowsOf(comm_df, c)) ELSE contexts[c]]

NoContexts == [c \in {} |-> 0]

(***************************************************************************)
(* Files                                                                   *)
(***************************************************************************)
\* A path is the sequence of its pieces; the default of save_index and
\* load_index, and a path without ".pkl" in it.
DefaultPath == <<"customer_rag_index", ".pkl">>
Paths == {DefaultPath, <<"customer_rag_index", ".bin">>}

\* filepath.replace('.pkl', '.faiss')
FaissPath(path) ==
    [i \in DOMAIN path |-> IF path[i] = ".pkl" THEN ".faiss" ELSE path[i]]

FileNames == Paths \cup {FaissPath(path) : path \in Paths}

Absent == [kind |-> "absent"]
PickleFile(docs, contexts) ==
    [kind |-> "pickle", documents |-> docs, customer_contexts |-> contexts]
FaissFile(idx) == [kind |-> "faiss", vectors |-> idx.vectors]

(***************************************************************************)
(* State                                                                   *)
(***************************************************************************)
NoSnapshot == [taken |-> FALSE]
Snapshot == [taken |-> TRUE, index |-> index, documents |-> documents,
             customer_contexts |-> customer_contexts]

NoLocals == [comm_df |-> <<>>, embeddings |-> <<>>]

IdleReader ==
    [pc |-> "idle", query |-> "", customer_id |-> NoCustomer, top_k |-> 0,
     seen_index |-> NoIndex, hits |-> <<>>, seen_documents |-> <<>>,
     status |-> "", results |-> <<>>]

\* No get_customer_insights call has returned and is still with its caller
NoInsights == [called |-> FALSE]

\* No method of the agent is running and none has returned to a caller
\* that still holds the result
NoCall == [pc |-> "idle"]

\* A Redis database without keys
EmptyStore == [k \in {} |-> 0]

\* RedisCache(): nothing stored, no set_vendor_query call made, no
\* get_vendor_query call returned
NewCache ==
    [client |-> EmptyStore, stored |-> {}, pc |-> "idle", vendor_id |-> <<>>,
     query |-> <<>>, value |-> [none |-> TRUE, dict |-> EmptyStore]]

\* CustomerRAGEngine.__init__, no file written yet, both threads idle; the
\* agents are constructed and idle, the cache is empty
EngineInit ==
    /\ index = NoIndex
    /\ documents = <<>>
    /\ customer_contexts = NoContexts
    /\ fs = [f \in FileNames |-> Absent]
    /\ wpc = "idle"
    /\ wloc = NoLocals
    /\ wret = [op |-> "none", value |-> "None"]
    /\ pre = NoSnapshot
    /\ lastSave = NoSnapshot
    /\ reader = IdleReader
    /\ insights = NoInsights
    /\ agent = NoCall
    /\ match = NoCall
    /\ vquery = NoCall
    /\ cache = NewCache

\* save_index and load_index are called with their default filepath
Init == EngineInit /\ filepath = DefaultPath

\* save_index and load_index are called with one filepath, of any shape
InitPersist == EngineInit /\ filepath \in Paths

(***************************************************************************)
(* build_vector_index, one action per step another thread can observe      *)
(***************************************************************************)
\* Lines 56-58: the history could not be read or is empty; nothing changes.
BuildEmpty ==
    /\ wpc = "idle"
    /\ wret' = [op |-> "build", value |-> "None"]
    /\ pre' = NoSnapshot
    /\ UNCHANGED <<others, insights, index, documents, customer_contexts, fs, filepath, wpc,
                   wloc, lastSave, reader>>

\* Lines 56-61: the history is read and self.documents is assigned.
BuildDocuments(comm_df) ==
    /\ wpc = "idle"
    /\ comm_df # <<>>
    /\ pre' = Snapshot
    /\ documents' = create_customer_documents(comm_df)
    /\ wloc' = [comm_df |-> comm_df, embeddings |-> <<>>]
    /\ wpc' = "build_encode"
    /\ wret' = [op |-> "build", value |-> "running"]
    /\ UNCHANGED <<others, insights, index, customer_contexts, fs, filepath, lastSave, reader>>

\* Lines 64-67: the texts of self.documents are embedded.
BuildEncode ==
    /\ wpc = "build_encode"
    /\ wloc' = [wloc EXCEPT !.embeddings = EncodeAll(documents)]
    /\ wpc' = "build_new_index"
    /\ UNCHANGED <<others, insights, index, documents, customer_contexts, fs, filepath, wret,
                   pre, lastSave, reader>>

\* Line 67: the embedding call raises; the exception leaves the method.
BuildEncodeRaises ==
    /\ wpc = "build_encode"
    /\ wpc' = "idle"
    /\ wloc' = NoLocals
    /\ wret' = [op |-> "build", value |-> "raised"]
    /\ UNCHANGED <<others, insights, index, documents, customer_contexts, fs, filepath, pre,
                   lastSave, reader>>

\* Lines 70-71: self.index becomes a new, empty IndexFlatIP.
BuildNewIndex ==
    /\ wpc = "build_new_index"
    /\ index' = IndexFlatIP(<<>>)
    /\ wpc' = "build_add"
    /\ UNCHANGED <<others, insights, documents, customer_contexts, fs, filepath, wloc, wret,
                   pre, lastSave, reader>>

\* Lines 74-75: the embeddings are normalised and added to self.index.
BuildAdd ==
    /\ wpc = "build_add"
    /\ index' = IndexFlatIP(index.vectors \o normalize_L2(wloc.embeddings))
    /\ wpc' = "build_contexts"
    /\ UNCHANGED <<others, insights, documents, customer_contexts, fs, filepath, wloc, wret,
                   pre, lastSave, reader>>

\* Lines 78-80: the customer contexts are rebuilt and the method returns.
BuildContexts ==
    /\ wpc = "build_contexts"
    /\ customer_contexts' = build_customer_contexts(customer_contexts, wloc.comm_df)
    /\ wpc' = "idle"
    /\ wloc' = NoLocals
    /\ wret' = [op |-> "build", value |-> "None"]
    /\ pre' = NoSnapshot
    /\ UNCHANGED <<others, insights, index, documents, fs, filepath, lastSave, reader>>

(***************************************************************************)
(* save_index                                                              *)
(***************************************************************************)
\* Lines 169-170: nothing is written without an index.
SaveNoIndex ==
    /\ wpc = "idle"
    /\ index.none
    /\ wret' = [op |-> "save", value |-> "None"]
    /\ pre' = NoSnapshot
    /\ UNCHANGED <<others, insights, index, documents, customer_contexts, fs, filepath, wpc,
                   wloc, lastSave, reader>>

\* Lines 172-176: documents and contexts are pickled to filepath.
SavePickle ==
    /\ wpc = "idle"
    /\ ~index.none
    /\ fs' = [fs EXCEPT ![filepath] = PickleFile(documents, customer_contexts)]
    /\ wpc' = "save_faiss"
    /\ wret' = [op |-> "save", value |-> "running"]
    /\ pre' = NoSnapshot
    /\ lastSave' = [taken |-> FALSE, partial |-> TRUE]
    /\ UNCHANGED <<others, insights, index, documents, customer_contexts, filepath, wloc, reader>>

\* Lines 178-179: the index is written to the .faiss path.
SaveFaiss ==
    /\ wpc = "save_faiss"
    /\ fs' = [fs EXCEPT ![FaissPath(filepath)] = FaissFile(index)]
    /\ wpc' = "idle"
    /\ wret' = [op |-> "save", value |-> "None"]
    /\ lastSave' = Snapshot
    /\ UNCHANGED <<others, insights, index, documents, customer_contexts, filepath, wloc, pre,
                   reader>>

(***************************************************************************)
(* load_index                                                              *)
(***************************************************************************)
\* Lines 184-187: the pickle is read; documents and contexts are assigned.
LoadPickle ==
    /\ wpc = "idle"
    /\ fs[filepath].kind = "pickle"
    /\ pre' = Snapshot
    /\ documents' = fs[filepath].documents
    /\ customer_contexts' = fs[filepath].customer_contexts
    /\ wpc' = "load_faiss"
    /\ wret' = [op |-> "load", value |-> "running"]
    /\ UNCHANGED <<others, insights, index, fs, filepath, wloc, lastSave, reader>>

\* Lines 184-185, 192-194: open or pickle.load raises (no file, or a file
\* that is no pickle); the method returns False.
LoadPickleFails ==
    /\ wpc = "idle"
    /\ fs[filepath].kind # "pickle"
    /\ pre' = Snapshot
    /\ wret' = [op |-> "load", value |-> "False"]
    /\ UNCHANGED <<others, insights, index, documents, customer_contexts, fs, filepath, wpc,
                   wloc, lastSave, reader>>

\* Lines 189-191: the index is read from the .faiss path.
LoadFaiss ==
    /\ wpc = "load_faiss"
    /\ fs[FaissPath(filepath)].kind = "faiss"
    /\ index' = IndexFlatIP(fs[FaissPath(filepath)].vectors)
    /\ wpc' = "idle"
    /\ wret' = [op |-> "load", value |-> "True"]
    /\ UNCHANGED <<others, insights, documents, customer_contexts, fs, filepath, wloc, pre,
                   lastSave, reader>>

\* Lines 189, 192-194: read_index raises; the method returns False.
LoadFaissFails ==
    /\ wpc = "load_faiss"
    /\ fs[FaissPath(filepath)].kind # "faiss"
    /\ wpc' = "idle"
    /\ wret' = [op |-> "load", value |-> "False"]
    /\ UNCHANGED <<others, insights, index, documents, customer_contexts, fs, filepath, wloc,
                   pre, lastSave, reader>>

\* The process ends at any point and a new engine is constructed; the files
\* stay as they are.
Crash ==
    /\ index' = NoIndex
    /\ documents' = <<>>
    /\ customer_contexts' = NoContexts
    /\ wpc' = "idle"
    /\ wloc' = NoLocals
    /\ wret' = [op |-> "none", value |-> "None"]
    /\ pre' = NoSnapshot
    /\ reader' = IdleReader
    /\ insights' = NoInsights
    /\ UNCHANGED <<others, fs, filepath, lastSave>>

(***************************************************************************)
(* search_similar_interactions on the reader thread                        *)
(***************************************************************************)
\* Lines 109-110: the call starts and returns [] when there is no index.
SearchBegin(query, customer_id, top_k) ==
    /\ reader.pc = "idle"
    /\ reader' =
         IF index.none
         THEN [IdleReader EXCEPT !.pc = "done", !.query = query,
                                 !.customer_id = customer_id, !.top_k = top_k,
                                 !.status = "ok"]
         ELSE [IdleReader EXCEPT !.pc = "faiss", !.query = query,
                                 !.customer_id = customer_id, !.top_k = top_k]
    /\ UNCHANGED <<others, insights, index, documents, customer_contexts, fs, filepath, wpc,
                   wloc, wret, pre, lastSave>>

\* Lines 113-117: the query is embedded and self.index is searched.
SearchFaiss ==
    /\ reader.pc = "faiss"
    /\ reader' = [reader EXCEPT !.pc = "loop", !.seen_index = index,
                                !.hits = QueryHits(index, reader.query, reader.top_k)]
    /\ UNCHANGED <<others, insights, index, documents, customer_contexts, fs, filepath, wpc,
                   wloc, wret, pre, lastSave>>

\* Lines 119-136: the hits are looked up in self.documents and filtered.
SearchResults ==
    /\ reader.pc = "loop"
    /\ LET out == SearchLoop(reader.hits, 1, documents, reader.customer_id,
                             reader.top_k, <<>>)
       IN reader' = [reader EXCEPT !.pc = "done", !.seen_documents = documents,
                                   !.status = out.status, !.results = out.results]
    /\ UNCHANGED <<others, insights, index, documents, customer_contexts, fs, filepath, wpc,
                   wloc, wret, pre, lastSave>>

\* Lines 110, 136: the caller has the returned list; the call is over.
SearchReturn ==
    /\ reader.pc = "done"
    /\ reader' = IdleReader
    /\ UNCHANGED <<others, insights, index, documents, customer_contexts, fs, filepath, wpc,
                   wloc, wret, pre, lastSave>>

\* The whole call at once, for a caller with no rebuild running
Search(query, customer_id, top_k) ==
    /\ wpc = "idle"
    /\ reader.pc = "idle"
    /\ LET out == search_similar_interactions(index, documents, query,
                                              customer_id, top_k)
       IN reader' = [pc |-> "done", query |-> query, customer_id |-> customer_id,
                     top_k |-> top_k, seen_index |-> index,
                     hits |-> IF index.none THEN <<>>
                              ELSE QueryHits(index, query, top_k),
                     seen_documents |-> documents,
                     status |-> out.status, results |-> out.results]
    /\ UNCHANGED <<others, insights, index, documents, customer_contexts, fs, filepath, wpc,
                   wloc, wret, pre, lastSave>>

\* A call of build_vector_index by the writer of Spec and SpecPersist
Build ==
    /\ wpc = "idle"
    /\ \E comm_df \in Histories(NumLifeRecords, MaxDocs) : BuildDocuments(comm_df)

\* The first build of an engine, from a history of SpecSearch
FirstBuild ==
    /\ wpc = "idle"
    /\ index.none
    /\ \E comm_df \in Histories(NumRecords, MaxSearchDocs) : BuildDocuments(comm_df)

(***************************************************************************)
(* Spec: a writer thread rebuilding the index while a reader thread        *)
(* searches.                                                               *)
(***************************************************************************)
Next ==
    \/ BuildEmpty
    \/ Build
    \/ BuildEncode
    \/ BuildEncodeRaises
    \/ BuildNewIndex
    \/ BuildAdd
    \/ BuildContexts
    \/ \E query \in Queries, customer_id \in CustomerArgs, top_k \in 1..MaxTopK :
          SearchBegin(query, customer_id, top_k)
    \/ SearchFaiss
    \/ SearchResults
    \/ SearchReturn

Spec == Init /\ [][Next]_vars

(***************************************************************************)
(* SpecPersist: one thread building, saving and loading with a working    *)
(* embedding model; the process may end at any point.                      *)
(***************************************************************************)
NextPersist ==
    \/ BuildEmpty
    \/ Build
    \/ BuildEncode
    \/ BuildNewIndex
    \/ BuildAdd
    \/ BuildContexts
    \/ SaveNoIndex
    \/ SavePickle
    \/ SaveFaiss
    \/ LoadPickle
    \/ LoadPickleFails
    \/ LoadFaiss
    \/ LoadFaissFails
    \/ Crash

SpecPersist == InitPersist /\ [][NextPersist]_vars

(***************************************************************************)
(* SpecSearch: an engine built once from a history, then searched.         *)
(***************************************************************************)
NextSearch ==
    \/ FirstBuild
    \/ BuildEncode
    \/ BuildNewIndex
    \/ BuildAdd
    \/ BuildContexts
    \/ \E query \in Queries, customer_id \in CustomerArgs, top_k \in 1..MaxTopK :
          Search(query, customer_id, top_k)
    \/ SearchReturn

SpecSearch == Init /\ [][NextSearch]_vars

(***************************************************************************)
(* Histories the customer profiles are computed from                       *)
(***************************************************************************)
\* rows a profile history is drawn from: ProfileRecordAt(1..NumProfileRecords)
NumProfileRecords == 6
\* longest profile history drawn from those rows
MaxProfileDocs == 3
\* longest history of the customer with many interactions
MaxInsightRows == 10

\* A cell the CSV leaves empty: pandas reads it as NaN, the f-string of
\* lines 40-48 renders it "nan".
NaN == "nan"

\* Rows 1 and 2 are one customer's successful interactions on two channels
\* with two sentiments; row 3 ends in a payment plan; row 4 was answered in
\* exactly 24 hours; row 5 repeats the communication_id of row 1; row 6 has
\* no content.
ProfileRecordAt(i) ==
    CASE i = 1 -> Row("C1", "Acme", "COM1", 1, "phone", "overdue", "negative", 10, "paid_full")
      [] i = 2 -> Row("C1", "Acme", "COM2", 2, "email", "plan", "positive", 11, "paid_partial")
      [] i = 3 -> Row("C1", "Acme", "COM3", 3, "email", "plan", "neutral", 12, "payment_plan")
      [] i = 4 -> Row("C2", "Globex", "COM4", 4, "phone", "dispute", "negative", 24, "no_response")
      [] i = 5 -> Row("C1", "Acme", "COM1", 5, "email", "dispute", "neutral", 12, "no_response")
      [] i = 6 -> Row("C2", "Globex", "COM6", 6, "phone", NaN, "positive", 10, "paid_full")
      [] OTHER -> Row("C2", "Globex", "COM7", 7, "email", "overdue", "neutral", 38, "paid_partial")

RECURSIVE ProfileHistoriesOfLen(_)
ProfileHistoriesOfLen(len) ==
    IF len = 0 THEN {<<>>}
    ELSE {Append(h, ProfileRecordAt(i)) :
             h \in ProfileHistoriesOfLen(len - 1), i \in 1..NumProfileRecords}

\* The communication_id of the i-th interaction of the customer with many
LongId(i) ==
    CASE i = 1 -> "L01" [] i = 2 -> "L02" [] i = 3 -> "L03" [] i = 4 -> "L04"
      [] i = 5 -> "L05" [] i = 6 -> "L06" [] i = 7 -> "L07" [] i = 8 -> "L08"
      [] i = 9 -> "L09" [] i = 10 -> "L10" [] i = 11 -> "L11" [] OTHER -> "L12"

\* The i-th interaction of that customer: paid in full after 10 hours, or
\* not answered, 38 hours on.
LongRow(i, paid) ==
    IF paid
    THEN Row("C3", "Initech", LongId(i), i, "email", "overdue", "positive", 10, "paid_full")
    ELSE Row("C3", "Initech", LongId(i), i, "email", "overdue", "negative", 38, "no_response")

LongHistories ==
    UNION {{[i \in 1..k |-> LongRow(i, paid[i])] : paid \in [1..k -> BOOLEAN]} :
              k \in 1..MaxInsightRows}

\* The DataFrames build_vector_index is called with in SpecProfile
ProfileHistories ==
    {h \in UNION {ProfileHistoriesOfLen(k) : k \in 1..MaxProfileDocs} : NoRepeat(h)}
        \cup LongHistories

\* customer_id arguments of get_customer_insights ("C9" owns no record)
InsightCustomers == {"C1", "C2", "C3", "C9"}

(***************************************************************************)
(* get_customer_insights                                                   *)
(***************************************************************************)
\* Line 148 with <= for <
response_speed_le(context) ==
    IF context.avg_response_time_hours.num <= 24 * context.avg_response_time_hours.den
    THEN "fast" ELSE "slow"

\* Line 148
response_speed(context) ==
    IF context.avg_response_time_hours.num < 24 * context.avg_response_time_hours.den
    THEN "fast" ELSE "slow"

\* Line 150 with >= for >
payment_reliability_ge(context) ==
    IF 10 * context.payment_success_rate.num >= 7 * context.payment_success_rate.den
    THEN "high" ELSE "low"

\* Line 150: payment_success_rate > 0.7
payment_reliability(context) ==
    IF 10 * context.payment_success_rate.num > 7 * context.payment_success_rate.den
    THEN "high" ELSE "low"

\* Line 156
escalation_risk(context) ==
    IF 10 * context.payment_success_rate.num > 7 * context.payment_success_rate.den
    THEN "low" ELSE "high"

CountTone(tones, t) == Cardinality({i \in 1..Len(tones) : tones[i] = t})

\* Line 154, max(set(tones), key=tones.count): max() returns the first of
\* the most frequent labels in the iteration order of the set, and a set of
\* strings iterates in the order of their hashes, which are salted anew for
\* each interpreter; any of the most frequent labels can be the result.
BestTones(tones) ==
    LET labels == {tones[i] : i \in 1..Len(tones)}
    IN {t \in labels : \A u \in labels : CountTone(tones, u) <= CountTone(tones, t)}

\* Line 155, int(avg * 1.5): int() drops the fraction of a float that is not
\* negative.  The number of hours of the returned string.
follow_up_timing(context) ==
    (3 * context.avg_response_time_hours.num)
        \div (2 * context.avg_response_time_hours.den)

\* Line 161, round(rate * 100, 1), in tenths of a percent
success_rate_percentage(context) ==
    (2000 * context.payment_success_rate.num + context.payment_success_rate.den)
        \div (2 * context.payment_success_rate.den)

\* The dictionary of lines 145-163, best_tone being the label max() returned
Insights(context, best_tone) ==
    [communication_profile |->
        [response_speed |-> response_speed(context),
         preferred_channel |-> context.preferred_communication,
         payment_reliability |-> payment_reliability(context),
         recent_mood |-> context.recent_sentiment],
     recommendations |->
        [best_tone |-> best_tone,
         follow_up_timing |-> follow_up_timing(context),
         escalation_risk |-> escalation_risk(context)],
     historical_context |->
        [total_interactions |-> context.total_communications,
         last_contact |-> context.last_communication_date,
         success_rate_percentage |-> success_rate_percentage(context)]]

\* What a call can return: {} for a customer without a context (lines
\* 140-141), else the insights for one of the labels max() can return.
get_customer_insights(contexts, customer_id) ==
    IF customer_id \notin DOMAIN contexts
    THEN {[called |-> TRUE, customer_id |-> customer_id, empty |-> TRUE]}
    ELSE {[called |-> TRUE, customer_id |-> customer_id, empty |-> FALSE,
           value |-> Insights(contexts[customer_id], best_tone)] :
             best_tone \in BestTones(contexts[customer_id].effective_tones)}

\* A caller asks for a customer's insights while no build is running.
GetInsights(customer_id) ==
    /\ wpc = "idle"
    /\ ~insights.called
    /\ insights' \in get_customer_insights(customer_contexts, customer_id)
    /\ UNCHANGED <<others, index, documents, customer_contexts, fs, filepath, wpc,
                   wloc, wret, pre, lastSave, reader>>

\* The caller is done with the insights it was given.
InsightsReturn ==
    /\ insights.called
    /\ insights' = NoInsights
    /\ UNCHANGED <<others, index, documents, customer_contexts, fs, filepath, wpc,
                   wloc, wret, pre, lastSave, reader>>

\* The first build of an engine, from a history of SpecProfile
ProfileBuild ==
    /\ wpc = "idle"
    /\ index.none
    /\ ~insights.called
    /\ \E comm_df \in ProfileHistories : BuildDocuments(comm_df)

(***************************************************************************)
(* SpecProfile: an engine built once from a history, then asked for the    *)
(* insights of its customers.                                              *)
(***************************************************************************)
NextProfile ==
    \/ ProfileBuild
    \/ BuildEncode
    \/ BuildNewIndex
    \/ BuildAdd
    \/ BuildContexts
    \/ \E customer_id \in InsightCustomers : GetInsights(customer_id)
    \/ InsightsReturn

SpecProfile == Init /\ [][NextProfile]_vars

(***************************************************************************)
(* InvoiceFollowupAgent (src/src/agents/invoice_followup_agent.py)         *)
(***************************************************************************)
\* Config, src/config.py lines 32, 33 and 38 (FREE_TIER_CAP as it is
\* without the environment variable)
OVERDUE_THRESHOLD_DAYS == 30
FIRM_REMINDER_DAYS == 45
FREE_TIER_CAP == 1

\* max_retries of generate_followup_email when the caller gives none
DefaultMaxRetries == 3

\* largest days_overdue passed to categorize_overdue_severity
MaxDays == 70
\* rows sample_invoices.csv is drawn from: InvoiceAt(1..NumInvoices)
NumInvoices == 4
\* most rows of sample_invoices.csv
MaxInvoices == 3
\* largest max_retries passed to generate_followup_email
MaxRetries == 3
\* largest limit passed to generate_batch_followups
MaxLimit == 3

\* days_overdue arguments: an invoice not yet due, due today, overdue
DaysOverdue == (-1)..MaxDays

\* Lines 27-34 with < for the <= of line 29
categorize_below_threshold(days_overdue) ==
    IF days_overdue < OVERDUE_THRESHOLD_DAYS THEN "polite"
    ELSE IF days_overdue <= FIRM_REMINDER_DAYS THEN "firm"
    ELSE "legal_escalation"

\* Lines 27-34
categorize_overdue_severity(days_overdue) ==
    IF days_overdue <= OVERDUE_THRESHOLD_DAYS THEN "polite"
    ELSE IF days_overdue <= FIRM_REMINDER_DAYS THEN "firm"
    ELSE "legal_escalation"

\* One row of sample_invoices.csv (the columns the agent reads)
Invoice(id, name, amount, days, status, history) ==
    [invoice_id |-> id, customer_name |-> name, invoice_amount |-> amount,
     days_overdue |-> days, status |-> status,
     payment_history_score |-> history]

\* Rows 2 and 4 have the same priority score; row 3 is paid and has the
\* highest score.
InvoiceAt(i) ==
    CASE i = 1 -> Invoice("INV001", "Acme", 10000, 60, "overdue", 3)
      [] i = 2 -> Invoice("INV002", "Globex", 5000, 30, "overdue", 8)
      [] i = 3 -> Invoice("INV003", "Initech", 20000, 0, "paid", 9)
      [] i = 4 -> Invoice("INV004", "Umbrella", 4000, 40, "overdue", 8)
      [] OTHER -> Invoice("INV005", "Hooli", 1000, 46, "overdue", 5)

RECURSIVE InvoiceFramesOfLen(_)
InvoiceFramesOfLen(len) ==
    IF len = 0 THEN {<<>>}
    ELSE {Append(df, InvoiceAt(i)) :
             df \in InvoiceFramesOfLen(len - 1), i \in 1..NumInvoices}

\* The DataFrames load_invoice_data returns: the empty one (no file, or a
\* file without rows) and those of distinct rows
InvoiceFrames ==
    {df \in UNION {InvoiceFramesOfLen(k) : k \in 0..MaxInvoices} : NoRepeat(df)}

\* Lines 276-280, amount * 0.4 + days * 100 * 0.4 + (10 - history) * 1000
\* * 0.2: ten times the float, so that it is an integer.
priority_score(row) ==
    4 * row.invoice_amount + 400 * row.days_overdue
        + 2000 * (10 - row.payment_history_score)

\* The row with its priority_score column
Scored(row) ==
    [invoice_id |-> row.invoice_id, customer_name |-> row.customer_name,
     invoice_amount |-> row.invoice_amount, days_overdue |-> row.days_overdue,
     status |-> row.status, payment_history_score |-> row.payment_history_score,
     priority_score |-> priority_score(row)]

\* The orders sort_values('priority_score') can leave the rows in
SortOrders(scored, ascending) ==
    {p \in [1..Len(scored) -> 1..Len(scored)] :
        /\ \A i, j \in 1..Len(scored) : i # j => p[i] # p[j]
        /\ \A i \in 1..(Len(scored) - 1) :
              IF ascending
              THEN scored[p[i]].priority_score <= scored[p[i + 1]].priority_score
              ELSE scored[p[i]].priority_score >= scored[p[i + 1]].priority_score}

\* sort_values('priority_score', ascending=True), the order the call of line
\* 282 does not ask for
SortedAscending(scored) ==
    {[i \in 1..Len(scored) |-> scored[p[i]]] : p \in SortOrders(scored, TRUE)}

\* Line 282, sort_values('priority_score', ascending=False): the default
\* sort is quicksort, which is not stable, so rows of equal score come in
\* any order.
SortedDescending(scored) ==
    {[i \in 1..Len(scored) |-> scored[p[i]]] : p \in SortOrders(scored, FALSE)}

\* Lines 272-282: the frames prioritize_followups can return
prioritize_followups(df) ==
    SortedDescending([i \in 1..Len(df) |-> Scored(df[i])])

\* A string the agent builds is the sequence of its pieces.  The pieces
\* that begin with "(Template" (line 340):
TemplatePrefixes ==
    {"(Template fallback forced)", "(Template fallback due to LLM response)"}

\* email_content.startswith('(Template')
StartsWithTemplate(email_content) ==
    email_content # <<>> /\ email_content[1] \in TemplatePrefixes

\* Lines 56-64
Tone(severity) ==
    CASE severity = "polite" -> "friendly and professional"
      [] severity = "firm" -> "professional but more direct"
      [] OTHER -> "formal and serious"

\* Lines 284-299
template_fallback(invoice_data, tone) ==
    <<"Dear", invoice_data.customer_name, "This is a", tone, "reminder",
      invoice_data.invoice_id, invoice_data.invoice_amount,
      invoice_data.days_overdue>>

\* str(e) of the exceptions generate_content raises, as words
ErrorStrings ==
    {<<"429", "Resource exhausted">>, <<"Quota", "exceeded for metric">>,
     <<"500", "Internal error">>}

\* str.lower() on the words of the error strings
Lower(word) == IF word = "Quota" THEN "quota" ELSE word

\* Line 247
IsQuotaError(error_str) ==
    \/ \E i \in 1..Len(error_str) : error_str[i] = "429"
    \/ \E i \in 1..Len(error_str) : Lower(error_str[i]) = "quota"
    \/ \E i \in 1..Len(error_str) : Lower(error_str[i]) = "rate limit"

\* What one call of generate_content ends in: text that passes the test of
\* line 235, a response without usable text, an exception
LLMOutcomes ==
    {[kind |-> "text", text |-> <<"Dear customer, your invoice is overdue.">>,
      error |-> <<>>],
     [kind |-> "unusable", text |-> <<>>, error |-> <<>>]}
        \cup {[kind |-> "raise", text |-> <<>>, error |-> e] : e \in ErrorStrings}

\* One entry of the list generate_batch_followups returns, lines 339-359
BatchResult(invoice, email_content) ==
    [invoice_id |-> invoice.invoice_id,
     customer_name |-> invoice.customer_name,
     amount |-> invoice.invoice_amount,
     days_overdue |-> invoice.days_overdue,
     severity |-> categorize_overdue_severity(invoice.days_overdue),
     priority_score |-> invoice.priority_score,
     generated_email |-> email_content,
     generated_by |-> IF StartsWithTemplate(email_content) THEN "TEMPLATE" ELSE "LLM"]

\* The agent while generate_followup_email or generate_batch_followups runs
\* and when it has returned: the arguments, the locals of the retry loop
\* (attempt, the calls of generate_content made, how the last one ended),
\* the locals of the batch loop, the returned value (under the name of
\* what it is: a severity, a frame, an email, a list of results).
AgentCall(op) ==
    [pc |-> "returned", op |-> op, days_overdue |-> 0, df |-> <<>>,
     invoice |-> InvoiceAt(1), max_retries |-> 0, use_template_only |-> FALSE,
     attempt |-> 0, calls |-> 0, last |-> "none",
     limit |-> 0, free_tier_mode |-> FALSE, top_invoices |-> <<>>, idx |-> 0,
     results |-> <<>>, value |-> [none |-> TRUE]]

RECURSIVE EmailEntry(_, _, _), EmailExit(_, _)

\* Lines 52-78: generate_followup_email up to the first call of
\* generate_content, or to its return when there is none
EmailEntry(a, invoice_data, max_retries) ==
    LET b == [a EXCEPT !.invoice = invoice_data, !.max_retries = max_retries,
                       !.attempt = 0, !.calls = 0, !.last = "none"]
        tone == Tone(categorize_overdue_severity(invoice_data.days_overdue))
    IN IF a.use_template_only
       THEN EmailExit(b, <<"(Template fallback forced)">>
                            \o template_fallback(invoice_data, tone))
       ELSE IF max_retries <= 0
            THEN EmailExit(b, <<"Failed to generate email after multiple retries">>)
            ELSE [b EXCEPT !.pc = "generate_content"]

\* generate_followup_email returns email_content: to its caller, or to the
\* loop of generate_batch_followups (lines 337-359), which appends the
\* result and goes on with the next invoice or returns the results.
EmailExit(a, email_content) ==
    IF a.op = "generate_followup_email"
    THEN [a EXCEPT !.pc = "returned", !.value = [email |-> email_content]]
    ELSE LET results == Append(a.results, BatchResult(a.invoice, email_content))
         IN IF a.idx < Len(a.top_invoices)
            THEN EmailEntry([a EXCEPT !.results = results, !.idx = a.idx + 1],
                            a.top_invoices[a.idx + 1], DefaultMaxRetries)
            ELSE [a EXCEPT !.results = results, !.pc = "returned",
                           !.value = [results |-> results]]

\* Lines 79-268 with the test of line 247 left out: every exception is
\* retried
AfterGenerateContentRetryAll(a, outcome) ==
    LET b == [a EXCEPT !.calls = a.calls + 1] IN
    CASE outcome.kind = "text" ->
            EmailExit([b EXCEPT !.last = "text"], outcome.text)
      [] outcome.kind = "unusable" ->
            EmailExit([b EXCEPT !.last = "unusable"],
                      <<"(Template fallback due to LLM response)">>
                          \o template_fallback(a.invoice,
                                Tone(categorize_overdue_severity(a.invoice.days_overdue))))
      [] OTHER ->
            LET last == IF IsQuotaError(outcome.error) THEN "quota" ELSE "other" IN
            IF a.attempt < a.max_retries - 1
            THEN [b EXCEPT !.last = last, !.attempt = a.attempt + 1]
            ELSE EmailExit([b EXCEPT !.last = last],
                           <<"Error generating email: Quota exceeded.">>
                               \o outcome.error)

\* Lines 79-268: generate_content ends in outcome; the method returns or
\* sleeps and goes to the next attempt.
AfterGenerateContent(a, outcome) ==
    LET b == [a EXCEPT !.calls = a.calls + 1] IN
    CASE outcome.kind = "text" ->
            EmailExit([b EXCEPT !.last = "text"], outcome.text)
      [] outcome.kind = "unusable" ->
            EmailExit([b EXCEPT !.last = "unusable"],
                      <<"(Template fallback due to LLM response)">>
                          \o template_fallback(a.invoice,
                                Tone(categorize_overdue_severity(a.invoice.days_overdue))))
      [] OTHER ->
            IF IsQuotaError(outcome.error)
            THEN IF a.attempt < a.max_retries - 1
                 THEN [b EXCEPT !.last = "quota", !.attempt = a.attempt + 1]
                 ELSE EmailExit([b EXCEPT !.last = "quota"],
                                <<"Error generating email: Quota exceeded.">>
                                    \o outcome.error)
            ELSE EmailExit([b EXCEPT !.last = "other"],
                           <<"Error generating email: ">> \o outcome.error)

\* DataFrame.head(n): the first n rows, all but the last -n rows when n < 0
DataFrameHead(df, n) ==
    LET k == IF n >= 0 THEN (IF n < Len(df) THEN n ELSE Len(df))
             ELSE (IF Len(df) + n > 0 THEN Len(df) + n ELSE 0)
    IN SubSeq(df, 1, k)

\* df[df['status'] == 'overdue']
OverdueRows(df) == SelectSeq(df, LAMBDA row : row.status = "overdue")

\* Lines 310-315
CappedLimit(limit, free_tier_mode) ==
    IF free_tier_mode /\ limit > FREE_TIER_CAP THEN FREE_TIER_CAP ELSE limit

\* categorize_overdue_severity is called and returns.
Categorize(days_overdue) ==
    /\ agent.pc = "idle"
    /\ agent' = [AgentCall("categorize_overdue_severity") EXCEPT
                    !.days_overdue = days_overdue,
                    !.value = [severity |-> categorize_overdue_severity(days_overdue)]]
    /\ UNCHANGED <<engine, match, vquery, cache>>

\* prioritize_followups is called on a frame and returns.
Prioritize(df) ==
    /\ agent.pc = "idle"
    /\ \E sorted \in prioritize_followups(df) :
          agent' = [AgentCall("prioritize_followups") EXCEPT
                       !.df = df, !.value = [frame |-> sorted]]
    /\ UNCHANGED <<engine, match, vquery, cache>>

\* generate_followup_email is called: it runs up to its first call of
\* generate_content, or returns.
FollowupEmail(invoice_data, max_retries, use_template_only) ==
    /\ agent.pc = "idle"
    /\ agent' = EmailEntry([AgentCall("generate_followup_email") EXCEPT
                               !.use_template_only = use_template_only],
                           invoice_data, max_retries)
    /\ UNCHANGED <<engine, match, vquery, cache>>

\* The pending call of generate_content ends.
GenerateContent ==
    /\ agent.pc = "generate_content"
    /\ \E outcome \in LLMOutcomes : agent' = AfterGenerateContent(agent, outcome)
    /\ UNCHANGED <<engine, match, vquery, cache>>

\* Lines 301-337: generate_batch_followups is called with FREE_TIER_MODE as
\* the environment set it and sample_invoices.csv holding df; it runs up to
\* its first call of generate_content, or returns.
BatchFollowups(limit, use_template_only, free_tier_mode, df) ==
    /\ agent.pc = "idle"
    /\ \E prioritized_df \in prioritize_followups(OverdueRows(df)) :
          LET top_invoices ==
                  DataFrameHead(prioritized_df, CappedLimit(limit, free_tier_mode))
              a == [AgentCall("generate_batch_followups") EXCEPT
                       !.limit = limit, !.use_template_only = use_template_only,
                       !.free_tier_mode = free_tier_mode, !.df = df,
                       !.top_invoices = top_invoices, !.idx = 1]
          IN agent' = IF df = <<>> \/ top_invoices = <<>>
                      THEN [a EXCEPT !.top_invoices = <<>>, !.idx = 0]
                      ELSE EmailEntry(a, top_invoices[1], DefaultMaxRetries)
    /\ UNCHANGED <<engine, match, vquery, cache>>

\* The caller is done with what the agent returned.
AgentReturn ==
    /\ agent.pc = "returned"
    /\ agent' = NoCall
    /\ UNCHANGED <<engine, match, vquery, cache>>

(***************************************************************************)
(* SpecFollowup: the methods of InvoiceFollowupAgent called one at a time  *)
(* on one invoice or one frame.                                            *)
(***************************************************************************)
NextFollowup ==
    \/ \E days_overdue \in DaysOverdue : Categorize(days_overdue)
    \/ \E df \in InvoiceFrames : Prioritize(df)
    \/ \E i \in 1..NumInvoices, max_retries \in 0..MaxRetries,
          use_template_only \in BOOLEAN :
          FollowupEmail(InvoiceAt(i), max_retries, use_template_only)
    \/ GenerateContent
    \/ AgentReturn

SpecFollowup == Init /\ [][NextFollowup]_vars

\* Every call of generate_content returns or raises.
SpecFollowupLive == SpecFollowup /\ WF_vars(GenerateContent)

(***************************************************************************)
(* SpecBatch: generate_batch_followups called on the invoice file.         *)
(***************************************************************************)
NextBatch ==
    \/ \E limit \in (-1)..MaxLimit, use_template_only \in BOOLEAN,
          free_tier_mode \in BOOLEAN, df \in InvoiceFrames :
          BatchFollowups(limit, use_template_only, free_tier_mode, df)
    \/ GenerateContent
    \/ AgentReturn

SpecBatch == Init /\ [][NextBatch]_vars

(***************************************************************************)
(* VendorQueryAgent (src/src/agents/vendor_query_agent.py)                 *)
(***************************************************************************)
\* rows vendor_invoices.csv is drawn from: VendorInvoiceAt(1..NumVendorInvoices)
NumVendorInvoices == 3
\* most rows of vendor_invoices.csv
MaxVendorInvoices == 2

\* Python's None, as the value of an argument or of a dictionary entry
None == "None"

\* datetime.now().isoformat(): the time of the call
Timestamp == "now"

VendorQueries == {"status of my invoices?", "when will I be paid?"}

\* vendor_email arguments: none given, empty, a vendor's, nobody's
VendorEmails == {None, "", "payments@techsupply.com", "nobody@example.com"}

\* data/vendor_master.csv: missing or unreadable (an empty frame), or with
\* its vendor
VendorFrames ==
    {<<>>,
     <<[vendor_id |-> "V001", vendor_name |-> "TechSupply",
        contact_email |-> "payments@techsupply.com"]>>}

\* Rows of data/vendor_invoices.csv; the status cell of the third is empty
VendorInvoiceAt(i) ==
    CASE i = 1 -> [vendor_id |-> "V001", invoice_id |-> "VI-1",
                   total_amount |-> 1200, status |-> "pending"]
      [] i = 2 -> [vendor_id |-> "V001", invoice_id |-> "VI-2",
                   total_amount |-> 300, status |-> "paid"]
      [] i = 3 -> [vendor_id |-> "V001", invoice_id |-> "VI-3",
                   total_amount |-> 50, status |-> NaN]
      [] OTHER -> [vendor_id |-> "V002", invoice_id |-> "VI-4",
                   total_amount |-> 75, status |-> "Pending"]

RECURSIVE VendorInvoiceFramesOfLen(_)
VendorInvoiceFramesOfLen(len) ==
    IF len = 0 THEN {<<>>}
    ELSE {Append(df, VendorInvoiceAt(i)) :
             df \in VendorInvoiceFramesOfLen(len - 1), i \in 1..NumVendorInvoices}

VendorInvoiceFrames ==
    {df \in UNION {VendorInvoiceFramesOfLen(k) : k \in 0..MaxVendorInvoices} :
        NoRepeat(df)}

\* data/purchase_orders.csv
PurchaseOrderFrames ==
    {<<>>,
     <<[vendor_id |-> "V001", po_number |-> "PO-1", total_amount |-> 1200,
        status |-> "open"]>>}

\* Lines 64-68: the vendor_id of the first vendor with that contact_email
VendorIdOf(vendor_data, vendor_email) ==
    LET vendor_matches == SelectSeq(vendor_data,
                              LAMBDA row : row.contact_email = vendor_email)
    IN IF Truthy(vendor_email) /\ vendor_data # <<>> /\ vendor_matches # <<>>
       THEN vendor_matches[1].vendor_id
       ELSE None

\* Lines 71-72: the rows of the vendor
RowsOfVendor(data, vendor_id) ==
    IF vendor_id # None /\ data # <<>>
    THEN SelectSeq(data, LAMBDA row : row.vendor_id = vendor_id)
    ELSE <<>>

\* Line 185, status.lower(): an empty status cell is the float NaN, which
\* has no lower(); _build_context raises AttributeError.
BuildContextRaises(payments) ==
    \E i \in 1..Len(payments) : payments[i].status = NaN

\* Lines 209-255, the text made from the local data
fallback_response(vendor_id, payments, po_info) ==
    <<"Vendor:", vendor_id>>
        \o (IF payments = <<>> THEN <<"No invoices found for this account.">>
            ELSE <<"Pending Invoices:">>
                    \o [i \in 1..Len(payments) |-> payments[i].invoice_id]
                    \o [i \in 1..Len(po_info) |-> po_info[i].po_number])

\* Lines 51-58
NotConfiguredDict(query, vendor_email) ==
    [query |-> query, response |-> <<"AI service not configured.">>,
     vendor_email |-> vendor_email, vendor_id |-> None, success |-> FALSE,
     timestamp |-> Timestamp]

\* Lines 104-113
FallbackDict(query, vendor_email, vendor_id, fallback_text, error) ==
    [query |-> query, response |-> fallback_text, vendor_email |-> vendor_email,
     vendor_id |-> vendor_id, success |-> TRUE,
     generated_from |-> "local_data_fallback", error |-> error,
     timestamp |-> Timestamp]

\* Lines 135-142
SuccessDict(query, vendor_email, vendor_id, response_text) ==
    [query |-> query, response |-> response_text, vendor_email |-> vendor_email,
     vendor_id |-> vendor_id, success |-> TRUE, timestamp |-> Timestamp]

\* Lines 145-153 with the key 'status' where the code has 'success'
ErrorDictWithStatus(query, vendor_email, vendor_id, name) ==
    [query |-> query,
     response |-> <<"Unable to process your query. Please try again later.", name>>,
     error |-> name, vendor_email |-> vendor_email, vendor_id |-> vendor_id,
     status |-> "error", timestamp |-> Timestamp]

\* Lines 145-153
ErrorDict(query, vendor_email, vendor_id, name) ==
    [query |-> query,
     response |-> <<"Unable to process your query. Please try again later.", name>>,
     error |-> name, vendor_email |-> vendor_email, vendor_id |-> vendor_id,
     success |-> FALSE, timestamp |-> Timestamp]

\* What the call of generate_content of line 100 ends in: a response with
\* text, a response whose text accessor raises, None, an exception
VendorLLMOutcomes ==
    {[kind |-> "text", text |-> <<"Invoice VI-1 is pending.">>],
     [kind |-> "text_raises", text |-> <<>>],
     [kind |-> "none", text |-> <<>>],
     [kind |-> "raise", text |-> <<"429 quota">>]}

\* Lines 116-133
ResponseText(outcome) ==
    CASE outcome.kind = "text" -> outcome.text
      [] outcome.kind = "none" -> <<"Unable to generate response">>
      [] OTHER -> <<"Unable to parse LLM response">>

\* The agent while process_vendor_query runs and when it has returned
VendorCall(pc, query, vendor_email, vendor_id, payments, po_info, value) ==
    [pc |-> pc, query |-> query, vendor_email |-> vendor_email,
     vendor_id |-> vendor_id, payments |-> payments, po_info |-> po_info,
     value |-> value]

\* Lines 46-100: process_vendor_query is called, GOOGLE_API_KEY being set or
\* not and the three frames being as __init__ loaded them; it returns or
\* calls generate_content.
VendorQuery(query, vendor_email, has_api_key, vendor_data, payment_data, po_data) ==
    /\ vquery.pc = "idle"
    /\ LET vendor_id == VendorIdOf(vendor_data, vendor_email)
           payments == RowsOfVendor(payment_data, vendor_id)
           po_info == RowsOfVendor(po_data, vendor_id)
       IN vquery' =
            IF ~has_api_key
            THEN VendorCall("returned", query, vendor_email, None, <<>>, <<>>,
                            NotConfiguredDict(query, vendor_email))
            ELSE IF BuildContextRaises(payments)
            THEN VendorCall("returned", query, vendor_email, vendor_id,
                            payments, po_info,
                            ErrorDict(query, vendor_email, vendor_id, "AttributeError"))
            ELSE VendorCall("generate_content", query, vendor_email, vendor_id,
                            payments, po_info, NoCall)
    /\ UNCHANGED <<engine, agent, match, cache>>

\* Lines 99-142: generate_content ends and the method returns.
VendorGenerateContent ==
    /\ vquery.pc = "generate_content"
    /\ \E outcome \in VendorLLMOutcomes :
          vquery' = [vquery EXCEPT
              !.pc = "returned",
              !.value =
                  IF outcome.kind = "raise"
                  THEN FallbackDict(vquery.query, vquery.vendor_email,
                                    vquery.vendor_id,
                                    fallback_response(vquery.vendor_id,
                                        vquery.payments, vquery.po_info),
                                    outcome.text)
                  ELSE SuccessDict(vquery.query, vquery.vendor_email,
                                   vquery.vendor_id, ResponseText(outcome))]
    /\ UNCHANGED <<engine, agent, match, cache>>

\* The caller is done with the dictionary.
VendorReturn ==
    /\ vquery.pc = "returned"
    /\ vquery' = NoCall
    /\ UNCHANGED <<engine, agent, match, cache>>

(***************************************************************************)
(* SpecVendor: process_vendor_query called on the vendor files.            *)
(***************************************************************************)
NextVendor ==
    \/ \E query \in VendorQueries, vendor_email \in VendorEmails,
          has_api_key \in BOOLEAN, vendor_data \in VendorFrames,
          payment_data \in VendorInvoiceFrames, po_data \in PurchaseOrderFrames :
          VendorQuery(query, vendor_email, has_api_key, vendor_data,
                      payment_data, po_data)
    \/ VendorGenerateContent
    \/ VendorReturn

SpecVendor == Init /\ [][NextVendor]_vars

(***************************************************************************)
(* ThreeWayMatchingAgent (src/src/agents/three_way_matching_agent.py)      *)
(***************************************************************************)
\* self.tolerance_config, lines 18-20
quantity_tolerance_percent == 5
price_tolerance_percent == 2
total_tolerance_amount == 10

\* A float that is not negative, kept exact as a fraction
Frac(n) == [num |-> n, den |-> 1]

AddFrac(x, y) == Ratio(x.num * y.den + y.num * x.den, x.den * y.den)

\* x <= y and x < y on such floats
LeqFrac(x, y) == x.num * y.den <= y.num * x.den
LessFrac(x, y) == x.num * y.den < y.num * x.den

\* max(0, 100 - percent)
ScoreOfDifference(percent) ==
    IF LeqFrac(percent, Frac(100))
    THEN Ratio(100 * percent.den - percent.num, percent.den)
    ELSE Frac(0)

Abs(n) == IF n < 0 THEN -n ELSE n

\* A string is the sequence of its characters.
LowerChar(ch) == IF ch = "A" THEN "a" ELSE IF ch = "B" THEN "b" ELSE ch

\* str.lower()
LowerStr(s) == [i \in 1..Len(s) |-> LowerChar(s[i])]

\* str.strip()
RECURSIVE StripStr(_)
StripStr(s) ==
    IF s = <<>> THEN s
    ELSE IF Head(s) = " " THEN StripStr(Tail(s))
    ELSE IF s[Len(s)] = " " THEN StripStr(SubSeq(s, 1, Len(s) - 1))
    ELSE s

\* The blocks a[i..i+k-1] = b[j..j+k-1]
CommonBlocks(a, b) ==
    {blk \in (1..Len(a)) \X (1..Len(b)) \X (1..Len(a)) :
        /\ blk[1] + blk[3] - 1 <= Len(a)
        /\ blk[2] + blk[3] - 1 <= Len(b)
        /\ \A d \in 0..(blk[3] - 1) : a[blk[1] + d] = b[blk[2] + d]}

\* SequenceMatcher.find_longest_match: the longest block, of these the one
\* that starts earliest in a, of these the one that starts earliest in b
LongestMatch(a, b) ==
    CHOOSE blk \in CommonBlocks(a, b) :
        \A other \in CommonBlocks(a, b) :
            \/ other[3] < blk[3]
            \/ other[3] = blk[3] /\ blk[1] < other[1]
            \/ other[3] = blk[3] /\ blk[1] = other[1] /\ blk[2] <= other[2]

\* The sum of the sizes of SequenceMatcher.get_matching_blocks(): the
\* longest match, then the same to its left and to its right
RECURSIVE MatchedChars(_, _)
MatchedChars(a, b) ==
    IF CommonBlocks(a, b) = {} THEN 0
    ELSE LET blk == LongestMatch(a, b) IN
         blk[3]
           + MatchedChars(SubSeq(a, 1, blk[1] - 1), SubSeq(b, 1, blk[2] - 1))
           + MatchedChars(SubSeq(a, blk[1] + blk[3], Len(a)),
                          SubSeq(b, blk[2] + blk[3], Len(b)))

\* difflib.SequenceMatcher(None, a, b).ratio(): 2 * matches / length, 1.0
\* for two empty strings
SequenceRatio(a, b) ==
    IF Len(a) + Len(b) = 0 THEN Frac(1)
    ELSE Ratio(2 * MatchedChars(a, b), Len(a) + Len(b))

\* similarity * 100
TimesHundred(x) == Ratio(100 * x.num, x.den)

\* Lines 106-121 (match: similarity > 0.8)
check_vendor_match(po, invoice) ==
    LET similarity == SequenceRatio(LowerStr(StripStr(po.vendor_name)),
                                    LowerStr(StripStr(invoice.vendor_name)))
    IN [match |-> LessFrac(Ratio(8, 10), similarity),
        score |-> TimesHundred(similarity)]

\* Lines 123-143
check_quantity_match(po, grn, invoice) ==
    LET qty_diff_percent ==
            IF grn.quantity_received > 0
            THEN Ratio(Abs(grn.quantity_received - invoice.quantity) * 100,
                       grn.quantity_received)
            ELSE Frac(100)
    IN [match |-> LeqFrac(qty_diff_percent, Frac(quantity_tolerance_percent)),
        score |-> ScoreOfDifference(qty_diff_percent)]

\* Lines 145-161
check_price_match(po, invoice) ==
    LET price_diff_percent ==
            IF po.unit_price > 0
            THEN Ratio(Abs(po.unit_price - invoice.unit_price) * 100, po.unit_price)
            ELSE Frac(100)
    IN [match |-> LeqFrac(price_diff_percent, Frac(price_tolerance_percent)),
        score |-> ScoreOfDifference(price_diff_percent)]

\* Lines 163-181
check_total_match(po, invoice) ==
    LET total_diff == Abs(po.total_amount - invoice.total_amount)
    IN [match |-> total_diff <= total_tolerance_amount,
        score |-> IF po.total_amount > 0
                  THEN ScoreOfDifference(Ratio(total_diff * 100, po.total_amount))
                  ELSE Frac(0)]

\* An empty date cell: pd.to_datetime gives NaT, every comparison with NaT
\* is False and NaT.strftime raises
NoDate == 0

\* Lines 183-207; a date is the number of its day
check_date_sequence(po, grn, invoice) ==
    IF po.po_date = NoDate \/ grn.receipt_date = NoDate \/ invoice.invoice_date = NoDate
    THEN [match |-> FALSE, score |-> Frac(0)]
    ELSE LET logical_sequence == po.po_date <= grn.receipt_date
                                    /\ grn.receipt_date <= invoice.invoice_date
         IN [match |-> logical_sequence,
             score |-> IF logical_sequence THEN Frac(100) ELSE Frac(0)]

\* Lines 209-226 (match: similarity > 0.7)
check_line_items(po, grn, invoice) ==
    LET similarity == SequenceRatio(LowerStr(po.description),
                                    LowerStr(invoice.description))
    IN [match |-> LessFrac(Ratio(7, 10), similarity),
        score |-> TimesHundred(similarity)]

\* Lines 228-238 with every threshold passed only above it
determine_status_strict(score) ==
    IF LessFrac(Frac(95), score) THEN "perfect_match"
    ELSE IF LessFrac(Frac(85), score) THEN "acceptable_match"
    ELSE IF LessFrac(Frac(70), score) THEN "review_required"
    ELSE "reject_match"

\* Lines 228-238
determine_status(score) ==
    IF LeqFrac(Frac(95), score) THEN "perfect_match"
    ELSE IF LeqFrac(Frac(85), score) THEN "acceptable_match"
    ELSE IF LeqFrac(Frac(70), score) THEN "review_required"
    ELSE "reject_match"

\* Lines 240-252
determine_action(matching_result) ==
    CASE matching_result.overall_status = "perfect_match" -> "auto_approve"
      [] matching_result.overall_status = "acceptable_match" -> "approve_with_notification"
      [] matching_result.overall_status = "review_required" -> "manual_review_required"
      [] OTHER -> "reject_and_investigate"

\* np.mean of the six scores
MeanOfSix(s1, s2, s3, s4, s5, s6) ==
    LET sum == AddFrac(AddFrac(AddFrac(s1, s2), AddFrac(s3, s4)), AddFrac(s5, s6))
    IN Ratio(sum.num, 6 * sum.den)

\* Lines 85-104
analyze_three_way_match(po, grn, invoice) ==
    LET vendor == check_vendor_match(po, invoice)
        quantity == check_quantity_match(po, grn, invoice)
        price == check_price_match(po, invoice)
        total == check_total_match(po, invoice)
        dates == check_date_sequence(po, grn, invoice)
        items == check_line_items(po, grn, invoice)
        overall_score == MeanOfSix(vendor.score, quantity.score, price.score,
                                   total.score, dates.score, items.score)
    IN [vendor_match |-> vendor, quantity_match |-> quantity,
        price_match |-> price, total_match |-> total,
        date_validation |-> dates, line_items_match |-> items,
        overall_score |-> overall_score,
        overall_status |-> determine_status(overall_score)]

\* The row of data/purchase_orders.csv
PurchaseOrder ==
    [po_number |-> "PO-1", vendor_name |-> <<"A", "c", "m", "e">>,
     quantity |-> 100, unit_price |-> 50, total_amount |-> 5000, po_date |-> 1,
     description |-> <<"B", "o", "l", "t", "s">>]

\* data/goods_receipt_notes.csv: one row; nothing or everything received,
\* after the order or on no known date
GoodsReceipts ==
    {[grn_number |-> "GRN-1", quantity_received |-> q, receipt_date |-> d] :
        q \in {100, 0}, d \in {2, NoDate}}

VendorNames == {<<"a", "c", "m", "e", " ">>, <<"a", "c", "n", "e">>, <<"z", "z">>}

Descriptions == {<<"b", "o", "l", "t", "s">>, <<"b", "o", "l", "t">>,
                 <<"n", "u", "t", "s">>}

\* A row of data/vendor_invoices.csv
MatchInvoice(po_number, vendor_name, quantity, unit_price, total_amount, invoice_date, description) ==
    [invoice_id |-> "VI-1", po_number |-> po_number, grn_number |-> "GRN-1",
     vendor_name |-> vendor_name, quantity |-> quantity,
     unit_price |-> unit_price, total_amount |-> total_amount,
     invoice_date |-> invoice_date, description |-> description]

\* data/vendor_invoices.csv: one row, for the order (after the receipt or
\* on the day of the order) or for an unknown order
MatchInvoices ==
    {MatchInvoice("PO-1", v, q, u, t, d, s) :
        v \in VendorNames, q \in {100, 94, 70}, u \in {50, 51, 52},
        t \in {5000, 5010, 5011, 5300}, d \in {3, 1}, s \in Descriptions}
    \cup {MatchInvoice("PO-9", <<"a", "c", "m", "e">>, 100, 50, 5000, 3,
                       <<"b", "o", "l", "t", "s">>)}

\* Lines 254-305: the analysis of the model, or the text of the except
\* clause
AIAnalyses == {<<"analysis">>, <<"AI analysis unavailable: ">>}

\* The agent while perform_three_way_match has returned to a caller
MatchCall(invoice_id, po_df, grn_df, invoice_df, value) ==
    [pc |-> "returned", invoice_id |-> invoice_id, po_df |-> po_df,
     grn_df |-> grn_df, invoice_df |-> invoice_df, value |-> value]

\* Lines 38-83, the three frames being what load_matching_data returns
perform_three_way_match(invoice_id, po_df, grn_df, invoice_df, ai_analysis) ==
    LET invoice_row == SelectSeq(invoice_df, LAMBDA row : row.invoice_id = invoice_id)
        invoice == invoice_row[1]
        matching_po == SelectSeq(po_df, LAMBDA row : row.po_number = invoice.po_number)
        matching_grn == SelectSeq(grn_df, LAMBDA row : row.grn_number = invoice.grn_number)
        matching_result == analyze_three_way_match(matching_po[1], matching_grn[1], invoice)
    IN IF po_df = <<>> \/ grn_df = <<>> \/ invoice_df = <<>>
       THEN [error |-> <<"Unable to load matching data">>]
       ELSE IF invoice_row = <<>>
       THEN [error |-> <<"Invoice", invoice_id, "not found">>]
       ELSE IF matching_po = <<>> \/ matching_grn = <<>>
       THEN [status |-> "incomplete_matching",
             message |-> <<"Missing matching documents", matching_po # <<>>,
                           matching_grn # <<>>>>,
             action_required |-> "manual_review"]
       ELSE [status |-> matching_result.overall_status,
             invoice_id |-> invoice_id,
             matching_details |-> matching_result,
             ai_analysis |-> ai_analysis,
             recommended_action |-> determine_action(matching_result),
             timestamp |-> Timestamp]

\* perform_three_way_match is called and returns.
ThreeWayMatch(invoice_id, po_df, grn_df, invoice_df) ==
    /\ match.pc = "idle"
    /\ \E ai_analysis \in AIAnalyses :
          match' = MatchCall(invoice_id, po_df, grn_df, invoice_df,
                        perform_three_way_match(invoice_id, po_df, grn_df,
                                                invoice_df, ai_analysis))
    /\ UNCHANGED <<engine, agent, vquery, cache>>

\* The caller is done with the result.
MatchReturn ==
    /\ match.pc = "returned"
    /\ match' = NoCall
    /\ UNCHANGED <<engine, agent, vquery, cache>>

(***************************************************************************)
(* SpecMatch: perform_three_way_match called on the three files.           *)
(***************************************************************************)
NextMatch ==
    \/ \E invoice_id \in {"VI-1", "VI-9"},
          po_df \in {<<>>, <<PurchaseOrder>>},
          grn_df \in {<<>>} \cup {<<grn>> : grn \in GoodsReceipts},
          invoice_df \in {<<>>} \cup {<<invoice>> : invoice \in MatchInvoices} :
          ThreeWayMatch(invoice_id, po_df, grn_df, invoice_df)
    \/ MatchReturn

SpecMatch == Init /\ [][NextMatch]_vars

(***************************************************************************)
(* RedisCache (src/src/cache/redis_cache.py)                               *)
(***************************************************************************)
\* A string is the sequence of its characters.
VendorQueryPrefix ==
    <<"v", "e", "n", "d", "o", "r", "_", "q", "u", "e", "r", "y", ":">>

RagPrefix == <<"r", "a", "g", ":">>

InvoiceFollowupPrefix ==
    <<"i", "n", "v", "o", "i", "c", "e", "_", "f", "o", "l", "l", "o", "w",
      "u", "p", ":">>

\* f"vendor_query:{vendor_id}:{query}", lines 76 and 80
VendorQueryKey(vendor_id, query) ==
    VendorQueryPrefix \o vendor_id \o <<":">> \o query

\* f"rag:{context_id}:{query}", line 91
RagKey(context_id, query) == RagPrefix \o context_id \o <<":">> \o query

\* f"invoice_followup:{invoice_id}", line 68
InvoiceFollowupKey(invoice_id) == InvoiceFollowupPrefix \o invoice_id

\* Lines 29-31: the digest of the key. Equal keys have equal digests, and
\* no two of the keys of the model have the same SHA-256 digest.
hash_key(raw_key) == <<"sha256", raw_key>>

\* A value of a dict: a string, or an object json cannot encode
Str(text) == [type |-> "str", text |-> text]
Obj(text) == [type |-> "object", text |-> text]

\* json.dumps(value, default=str), line 46: a dict as its JSON text, an
\* object being replaced with its str()
json_dumps(value) ==
    [json |-> [k \in DOMAIN value |-> Str(value[k].text)]]

\* json.loads(value), line 37
json_loads(text) == text.json

\* The strings the callers pass
CacheVendorIds == {<<"V", "1">>, <<"V", "1", ":", "x">>}
CacheQueries == {<<"q">>, <<"x", ":", "q">>}
CacheResponses ==
    {[response |-> Str("paid")],
     [response |-> Str("pending"), timestamp |-> Obj("2024-01-15")]}
CacheContextIds == {<<"V", "1">>}
CacheInvoiceIds == {<<"V", "1", ":", "q">>}
CacheTexts == {"paid"}

\* Lines 42-50: setex of the JSON text under the digest; an exception of
\* the client (server_up false) is swallowed
CacheSet(client, key, value, server_up) ==
    IF server_up
    THEN [k \in DOMAIN client \cup {hash_key(key)} |->
             IF k = hash_key(key) THEN json_dumps(value) ELSE client[k]]
    ELSE client

\* Lines 33-40: the dict stored under the digest, or None
CacheGet(client, key, server_up) ==
    IF server_up /\ hash_key(key) \in DOMAIN client
    THEN [none |-> FALSE, dict |-> json_loads(client[hash_key(key)])]
    ELSE [none |-> TRUE, dict |-> EmptyStore]

\* Lines 79-84. cache.stored records the call.
SetVendorQuery(vendor_id, query, response, server_up) ==
    /\ cache.pc = "idle"
    /\ cache' = [cache EXCEPT
                    !.client = CacheSet(@, VendorQueryKey(vendor_id, query),
                                        response, server_up),
                    !.stored = @ \cup {<<vendor_id, query, response>>}]
    /\ UNCHANGED <<engine, agent, match, vquery>>

\* Lines 89-94
SetRagResponse(context_id, query, response, server_up) ==
    /\ cache.pc = "idle"
    /\ cache' = [cache EXCEPT
                    !.client = CacheSet(@, RagKey(context_id, query),
                                        [response |-> Str(response)], server_up)]
    /\ UNCHANGED <<engine, agent, match, vquery>>

\* Lines 67-72
SetInvoiceFollowup(invoice_id, email_text, server_up) ==
    /\ cache.pc = "idle"
    /\ cache' = [cache EXCEPT
                    !.client = CacheSet(@, InvoiceFollowupKey(invoice_id),
                                        [email |-> Str(email_text)], server_up)]
    /\ UNCHANGED <<engine, agent, match, vquery>>

\* Lines 75-76
GetVendorQuery(vendor_id, query, server_up) ==
    /\ cache.pc = "idle"
    /\ cache' = [cache EXCEPT
                    !.pc = "returned",
                    !.vendor_id = vendor_id,
                    !.query = query,
                    !.value = CacheGet(cache.client,
                                       VendorQueryKey(vendor_id, query), server_up)]
    /\ UNCHANGED <<engine, agent, match, vquery>>

\* The caller is done with the value.
CacheReturn ==
    /\ cache.pc = "returned"
    /\ cache' = [cache EXCEPT !.pc = "idle", !.vendor_id = <<>>, !.query = <<>>,
                              !.value = [none |-> TRUE, dict |-> EmptyStore]]
    /\ UNCHANGED <<engine, agent, match, vquery>>

\* The ttl of setex (lines 43-47) runs out: Redis drops the key.
CacheExpire ==
    /\ cache.pc = "idle"
    /\ \E key \in DOMAIN cache.client :
          cache' = [cache EXCEPT
                       !.client = [k \in DOMAIN @ \ {key} |-> @[k]]]
    /\ UNCHANGED <<engine, agent, match, vquery>>

(***************************************************************************)
(* SpecCache: the agent-specific helpers called in any order.              *)
(***************************************************************************)
NextCache ==
    \/ \E vendor_id \in CacheVendorIds, query \in CacheQueries,
          response \in CacheResponses, server_up \in BOOLEAN :
          SetVendorQuery(vendor_id, query, response, server_up)
    \/ \E context_id \in CacheContextIds, query \in CacheQueries,
          response \in CacheTexts, server_up \in BOOLEAN :
          SetRagResponse(context_id, query, response, server_up)
    \/ \E invoice_id \in CacheInvoiceIds, email_text \in CacheTexts,
          server_up \in BOOLEAN :
          SetInvoiceFollowup(invoice_id, email_text, server_up)
    \/ \E vendor_id \in CacheVendorIds, query \in CacheQueries,
          server_up \in BOOLEAN :
          GetVendorQuery(vendor_id, query, server_up)
    \/ CacheReturn
    \/ CacheExpire

SpecCache == Init /\ [][NextCache]_vars

(***************************************************************************)
(* Claims                                                                  *)
(***************************************************************************)
SearchArgs == Queries \X CustomerArgs \X (1..MaxTopK)

\* The result of a search on a snapshot, for every argument
AllSearches(idx, docs) ==
    [a \in SearchArgs |-> search_similar_interactions(idx, docs, a[1], a[2], a[3])]

BuildRaised == wret = [op |-> "build", value |-> "raised"]

\* C1: when build_vector_index raises partway over a previously built index,
\* the index, the documents and the customer contexts are those of before
\* the call, and every search gives what it gave before the call.
C1_RebuildAtomic ==
    (BuildRaised /\ pre.taken /\ ~pre.index.none) =>
        /\ index = pre.index
        /\ documents = pre.documents
        /\ customer_contexts = pre.customer_contexts
        /\ AllSearches(index, documents) = AllSearches(pre.index, pre.documents)

\* The vectors an index built from docs holds
VectorsOf(docs) == normalize_L2(EncodeAll(docs))

\* C2: a search never pairs the vector index of one build with the document
\* list of another: the index it searched holds exactly the vectors of the
\* documents it read.
C2_OneSnapshot ==
    (reader.pc = "done" /\ ~reader.seen_index.none) =>
        reader.seen_index.vectors = VectorsOf(reader.seen_documents)

\* Number of documents of a customer in a document list
CountOf(docs, customer_id) ==
    Cardinality({i \in 1..Len(docs) : docs[i].customer_id = customer_id})

Min(a, b) == IF a <= b THEN a ELSE b

\* The search the reader finished ran on an engine whose index holds the
\* vectors of its documents, with a customer filter
FilteredSearchDone ==
    /\ reader.pc = "done"
    /\ ~reader.seen_index.none
    /\ reader.seen_index.vectors = VectorsOf(reader.seen_documents)
    /\ Truthy(reader.customer_id)

\* C3: under a customer filter c, search returns exactly top_k results when
\* the index holds at least top_k documents of c, and exactly as many as the
\* index holds of c otherwise.
C3_FilteredCount ==
    FilteredSearchDone =>
        Len(reader.results) =
            Min(reader.top_k, CountOf(reader.seen_documents, reader.customer_id))

\* C4: under a customer filter c every returned result has customer_id = c.
C4_FilterRespected ==
    (reader.pc = "done" /\ Truthy(reader.customer_id)) =>
        \A i \in 1..Len(reader.results) :
            reader.results[i].customer_id = reader.customer_id

\* C4 witness: a filtered search returned a result although a document of
\* another customer was the best hit.
C4_Witness ==
    /\ reader.pc = "done"
    /\ Truthy(reader.customer_id)
    /\ reader.results # <<>>
    /\ reader.hits[1].idx >= 0
    /\ PyItem(reader.seen_documents, reader.hits[1].idx).customer_id
          # reader.customer_id

\* C5: the similarity scores of the results are non-increasing, with or
\* without a customer filter.
C5_ScoresNonIncreasing ==
    reader.pc = "done" =>
        \A i, j \in 1..Len(reader.results) :
            i < j => reader.results[i].similarity_score
                        >= reader.results[j].similarity_score

\* C5 witness: a filtered search returned two results found in the index,
\* the second of a lower score than the first.
C5_Witness ==
    /\ reader.pc = "done"
    /\ Truthy(reader.customer_id)
    /\ Len(reader.results) >= 2
    /\ reader.results[1].similarity_score > reader.results[2].similarity_score
    /\ reader.results[2].similarity_score > NegInfScore

\* Order of communication identifiers
CommOrder(id) ==
    CASE id = "COM1" -> 1 [] id = "COM2" -> 2 [] id = "COM3" -> 3
      [] id = "COM4" -> 4 [] id = "COM5" -> 5 [] OTHER -> 6

\* C6: results of equal similarity come most recent first, and by
\* communication identifier when the dates are equal too.
C6_TieBreak ==
    (reader.pc = "done" /\ reader.status = "ok") =>
        \A i, j \in 1..Len(reader.results) :
            (/\ i < j
             /\ reader.results[i].similarity_score = reader.results[j].similarity_score
             /\ reader.results[i].similarity_score > NegInfScore) =>
                \/ reader.results[i].date > reader.results[j].date
                \/ /\ reader.results[i].date = reader.results[j].date
                   /\ CommOrder(reader.results[i].communication_id)
                        < CommOrder(reader.results[j].communication_id)

\* C7: a search without an index fails with EmptyIndexError, and an empty
\* result is returned only when an index exists.
C7_EmptyIndexError ==
    reader.pc = "done" =>
        /\ reader.seen_index.none => reader.status = "EmptyIndexError"
        /\ (reader.status = "ok" /\ reader.results = <<>>) => ~reader.seen_index.none

\* C8: whatever point save_index is interrupted at, a persisted document
\* list and the persisted vectors have the same length.
C8_PersistAtomic ==
    (fs[filepath].kind = "pickle" /\ fs[FaissPath(filepath)].kind = "faiss") =>
        Len(fs[filepath].documents) = Len(fs[FaissPath(filepath)].vectors)

LoadReturned == wret.op = "load" /\ wret.value # "running"

\* C9: load_index reports success only when both files exist and the
\* vector count it read equals the document count it read.
C9_LoadChecksCounts ==
    (LoadReturned /\ wret.value = "True") =>
        /\ fs[filepath].kind = "pickle"
        /\ fs[FaissPath(filepath)].kind = "faiss"
        /\ Len(documents) = Len(index.vectors)

\* C10: a load_index that follows a completed save_index of a built engine
\* gives back the documents, the customer contexts and the search results
\* the engine had when it was saved.
C10_RoundTrip ==
    (LoadReturned /\ lastSave.taken) =>
        /\ documents = lastSave.documents
        /\ customer_contexts = lastSave.customer_contexts
        /\ AllSearches(index, documents)
              = AllSearches(lastSave.index, lastSave.documents)

\* C11: after every rebuild that succeeds, the customers with a profile are
\* exactly the customers of the records of that rebuild.
C11_ProfilesMatchRebuild ==
    [][BuildContexts =>
          DOMAIN customer_contexts'
              = {wloc.comm_df[i].customer_id : i \in 1..Len(wloc.comm_df)}]_vars

\* A build has completed and no other is running: documents holds one
\* document per row of the history the contexts were computed from.
Built == wpc = "idle" /\ ~index.none

DocsOf(c) == {i \in 1..Len(documents) : documents[i].customer_id = c}

PaidDocsOf(c) ==
    {i \in DocsOf(c) : documents[i].payment_result = "paid_full"
                          \/ documents[i].payment_result = "paid_partial"}

\* C12: a customer's success rate is the number of their records that ended
\* in paid_full or paid_partial over the number of their records, and lies
\* in [0, 1]; payment_plan and no_response do not count.
C12_SuccessRate ==
    Built => \A c \in DOMAIN customer_contexts :
        LET rate == customer_contexts[c].payment_success_rate IN
        /\ rate.num * Cardinality(DocsOf(c)) = Cardinality(PaidDocsOf(c)) * rate.den
        /\ 0 <= rate.num
        /\ rate.num <= rate.den

\* A customer with a paid, a payment_plan and a no_response record: 1/3
C12_Witness ==
    /\ Built
    /\ \E c \in DOMAIN customer_contexts :
          /\ \E i, j, k \in DocsOf(c) :
                /\ documents[i].payment_result = "paid_full"
                /\ documents[j].payment_result = "payment_plan"
                /\ documents[k].payment_result = "no_response"
          /\ customer_contexts[c].payment_success_rate = [num |-> 1, den |-> 3]

Channels(c) == {documents[i].type : i \in DocsOf(c)}

CountChannel(c, t) == Cardinality({i \in DocsOf(c) : documents[i].type = t})

ModeChannels(c) ==
    {t \in Channels(c) : \A u \in Channels(c) : CountChannel(c, u) <= CountChannel(c, t)}

\* The date of the customer's earliest record on the channel
FirstDate(c, t) ==
    CHOOSE d \in {documents[i].date : i \in DocsOf(c)} :
        /\ \E i \in DocsOf(c) : documents[i].type = t /\ documents[i].date = d
        /\ \A i \in DocsOf(c) : documents[i].type = t => d <= documents[i].date

\* C13: the preferred channel is the most frequent channel of the
\* customer's records and, among equally frequent channels, the one whose
\* first record is the earliest by date.
C13_PreferredChannel ==
    Built => \A c \in DOMAIN customer_contexts :
        LET p == customer_contexts[c].preferred_communication IN
        /\ p \in ModeChannels(c)
        /\ \A u \in ModeChannels(c) : FirstDate(c, p) <= FirstDate(c, u)

\* C14: the recent sentiment is the sentiment of the customer's record with
\* the latest date, in whatever order the records were read.
C14_RecentSentiment ==
    Built => \A c \in DOMAIN customer_contexts :
        \A i \in DocsOf(c) :
            (\A j \in DocsOf(c) : documents[j].date <= documents[i].date)
                => customer_contexts[c].recent_sentiment = documents[i].sentiment

\* A call of get_customer_insights has returned the insights of a customer
\* who has a profile
Asked == insights.called /\ ~insights.empty

\* The response_time_hours of the customer's records, summed over the first
\* n documents
RECURSIVE HoursUpTo(_, _)
HoursUpTo(c, n) ==
    IF n = 0 THEN 0
    ELSE HoursUpTo(c, n - 1)
            + (IF documents[n].customer_id = c
               THEN documents[n].response_time_hours ELSE 0)

TotalHours(c) == HoursUpTo(c, Len(documents))

\* C15: the response speed is "fast" exactly when the customer's average
\* response time is below 24 hours, and "slow" otherwise, also at exactly 24.
C15_ResponseSpeed ==
    Asked =>
        LET c == insights.customer_id
            speed == insights.value.communication_profile.response_speed
        IN /\ speed \in {"fast", "slow"}
           /\ speed = "fast" <=> TotalHours(c) < 24 * Cardinality(DocsOf(c))

\* Records answered after 10 and after 38 hours, 24 on average: "slow"
C15_Witness ==
    /\ Asked
    /\ TotalHours(insights.customer_id) = 24 * Cardinality(DocsOf(insights.customer_id))
    /\ \E i, j \in DocsOf(insights.customer_id) :
          documents[i].response_time_hours < documents[j].response_time_hours
    /\ insights.value.communication_profile.response_speed = "slow"

\* C16: the payment reliability is "high" exactly when the escalation risk
\* is "low", exactly when the success rate is above 0.7; at 0.7 they are
\* "low" and "high".
C16_Reliability ==
    Asked =>
        LET c == insights.customer_id
            above == 10 * Cardinality(PaidDocsOf(c)) > 7 * Cardinality(DocsOf(c))
        IN /\ insights.value.communication_profile.payment_reliability
                = (IF above THEN "high" ELSE "low")
           /\ insights.value.recommendations.escalation_risk
                = (IF above THEN "low" ELSE "high")

\* Seven records of ten paid: a success rate of exactly 0.7
C16_Witness ==
    /\ Asked
    /\ Cardinality(DocsOf(insights.customer_id)) = 10
    /\ Cardinality(PaidDocsOf(insights.customer_id)) = 7
    /\ insights.value.communication_profile.payment_reliability = "low"
    /\ insights.value.recommendations.escalation_risk = "high"

FirstIndex(tones, t) ==
    CHOOSE i \in 1..Len(tones) : tones[i] = t /\ \A j \in 1..(i - 1) : tones[j] # t

\* C17: the best tone is the most frequent label of the effective tones
\* and, among equally frequent labels, the one that comes first in the list.
C17_BestTone ==
    Asked =>
        LET tones == customer_contexts[insights.customer_id].effective_tones
            best == insights.value.recommendations.best_tone
            count(t) == Cardinality({i \in 1..Len(tones) : tones[i] = t})
        IN /\ \E i \in 1..Len(tones) : tones[i] = best
           /\ \A i \in 1..Len(tones) :
                 \/ count(tones[i]) < count(best)
                 \/ /\ count(tones[i]) = count(best)
                    /\ FirstIndex(tones, best) <= i

\* C18: the follow-up timing is 1.5 times the average response time,
\* rounded to the nearest hour (at most half an hour away from it).
C18_FollowUpRounded ==
    Asked =>
        LET c == insights.customer_id
            n == Cardinality(DocsOf(c))
            off == 2 * n * insights.value.recommendations.follow_up_timing
                      - 3 * TotalHours(c)
        IN off <= n /\ -off <= n

\* The row lacks a field a document is built from (the dates and the
\* response times of the rows of the model are always there)
LacksField(row) ==
    \E f \in {"customer_id", "customer_name", "communication_id", "type",
              "content", "sentiment", "payment_result"} : row[f] = NaN

RECURSIVE ValidRows(_)
ValidRows(comm_df) ==
    IF comm_df = <<>> THEN <<>>
    ELSE IF LacksField(Head(comm_df))
         THEN ValidRows(Tail(comm_df))
         ELSE <<Head(comm_df)>> \o ValidRows(Tail(comm_df))

\* C19: document building skips exactly the records that lack a required
\* field and makes one document for every other record, in input order.
C19_InvalidSkipped ==
    wpc = "build_encode" =>
        documents = create_customer_documents(ValidRows(wloc.comm_df))

\* C20: after a rebuild no two documents have the same interaction
\* identifier, and a customer's profile counts each identifier once.
C20_UniqueIdentifiers ==
    Built =>
        /\ \A i, j \in 1..Len(documents) :
              documents[i].communication_id = documents[j].communication_id => i = j
        /\ \A c \in DOMAIN customer_contexts :
              customer_contexts[c].total_communications
                  = Cardinality({documents[i].communication_id : i \in DocsOf(c)})

Returned(op) == agent.pc = "returned" /\ agent.op = op

\* polite < firm < legal_escalation
SeverityRank(severity) ==
    CASE severity = "polite" -> 1 [] severity = "firm" -> 2 [] OTHER -> 3

\* C21: categorize_overdue_severity returns "polite" up to 30 days, "firm"
\* from 31 to 45 and "legal_escalation" above 45, and no smaller number of
\* days gets a harsher category.
C21_SeverityMonotone ==
    Returned("categorize_overdue_severity") =>
        /\ agent.days_overdue <= 30 => agent.value.severity = "polite"
        /\ (31 <= agent.days_overdue /\ agent.days_overdue <= 45) => agent.value.severity = "firm"
        /\ agent.days_overdue > 45 => agent.value.severity = "legal_escalation"
        /\ \A days \in DaysOverdue :
              days <= agent.days_overdue =>
                  SeverityRank(categorize_overdue_severity(days))
                      <= SeverityRank(agent.value.severity)

\* The first day that is "firm"
C21_Witness ==
    /\ Returned("categorize_overdue_severity")
    /\ agent.days_overdue = 31
    /\ agent.value.severity = "firm"

\* The columns of a row the frame had before the call
Unscored(row) ==
    Invoice(row.invoice_id, row.customer_name, row.invoice_amount,
            row.days_overdue, row.status, row.payment_history_score)

\* C22: prioritize_followups returns the invoices it was given, each with
\* priority_score = 0.4 * amount + 40 * days_overdue + 200 * (10 -
\* payment_history_score) (compared times ten), in non-increasing order of
\* the score.
C22_Prioritized ==
    Returned("prioritize_followups") =>
        /\ Len(agent.value.frame) = Len(agent.df)
        /\ {Unscored(agent.value.frame[i]) : i \in 1..Len(agent.value.frame)}
              = {agent.df[i] : i \in 1..Len(agent.df)}
        /\ \A i \in 1..Len(agent.value.frame) :
              agent.value.frame[i].priority_score
                  = 4 * agent.value.frame[i].invoice_amount
                      + 400 * agent.value.frame[i].days_overdue
                      + 2000 * (10 - agent.value.frame[i].payment_history_score)
        /\ \A i \in 1..(Len(agent.value.frame) - 1) :
              agent.value.frame[i].priority_score >= agent.value.frame[i + 1].priority_score

\* A frame of three rows that comes back in another order, two of its rows
\* with the same score
C22_Witness ==
    /\ Returned("prioritize_followups")
    /\ Len(agent.df) = 3
    /\ Unscored(agent.value.frame[1]) # agent.df[1]
    /\ \E i \in 1..2 : agent.value.frame[i].priority_score = agent.value.frame[i + 1].priority_score

\* What C24 says of every state of a call of generate_followup_email
RetryLoopBounded ==
    agent.pc # "idle" /\ agent.op = "generate_followup_email" =>
        /\ agent.calls <= agent.max_retries
        /\ agent.use_template_only => agent.calls = 0
        /\ agent.pc = "generate_content" =>
              /\ agent.calls < agent.max_retries
              /\ agent.calls = 0 => agent.last = "none"
              /\ agent.calls > 0 => agent.last = "quota"
        /\ agent.last \in {"text", "unusable", "other"} => agent.pc = "returned"
        /\ agent.pc = "returned" => Len(agent.value.email) > 0

C25_FreeTierCap ==
    agent.pc # "idle" /\ agent.op = "generate_batch_followups" =>
        /\ agent.free_tier_mode => Len(agent.results) <= FREE_TIER_CAP
        /\ Len(agent.results) <= (IF agent.limit > 0 THEN agent.limit ELSE 0)
        /\ \A i \in 1..Len(agent.results) :
              \E j \in 1..Len(agent.df) :
                  /\ agent.df[j].invoice_id = agent.results[i].invoice_id
                  /\ agent.df[j].status = "overdue"
        /\ \A i \in 1..(Len(agent.results) - 1) :
              agent.results[i].priority_score >= agent.results[i + 1].priority_score

\* C29: a result of generate_batch_followups is labelled 'LLM' only when
\* its generated_email is text the language model produced.
C29_GeneratedByLLM ==
    agent.pc # "idle" /\ agent.op = "generate_batch_followups" =>
        \A i \in 1..Len(agent.results) :
            agent.results[i].generated_by = "LLM" =>
                \E outcome \in LLMOutcomes :
                    /\ outcome.kind = "text"
                    /\ agent.results[i].generated_email = outcome.text

\* C23: whatever path process_vendor_query takes, it returns to its caller
\* a dictionary with the keys 'query', 'response', 'vendor_email' and
\* 'success' and without the key 'status'.
C23_VendorDictKeys ==
    /\ vquery.pc \in {"idle", "generate_content", "returned"}
    /\ vquery.pc = "returned" =>
          /\ {"query", "response", "vendor_email", "success"} \subseteq DOMAIN vquery.value
          /\ "status" \notin DOMAIN vquery.value

\* _build_context raised on an invoice without status and the method
\* returned the dictionary of its except clause
C23_Witness ==
    /\ vquery.pc = "returned"
    /\ \E i \in 1..Len(vquery.payments) : vquery.payments[i].status = NaN
    /\ "error" \in DOMAIN vquery.value
    /\ vquery.value.success = FALSE

\* perform_three_way_match returned a complete result
CompleteMatch ==
    match.pc = "returned" /\ "recommended_action" \in DOMAIN match.value

\* The six checks of a complete result
MatchChecks ==
    LET details == match.value.matching_details
    IN <<details.vendor_match, details.quantity_match, details.price_match,
         details.total_match, details.date_validation, details.line_items_match>>

\* A common denominator of the check scores of the model (ninths and
\* fiftieths): a check score times it is an integer
ScoreUnit == 9 * 50

ScoreUnits(score) == (score.num * ScoreUnit) \div score.den

RECURSIVE SumUnits(_)
SumUnits(checks) ==
    IF checks = <<>> THEN 0
    ELSE ScoreUnits(Head(checks).score) + SumUnits(Tail(checks))

\* C26: in a complete result every check score is in [0, 100], the overall
\* score is their mean, and the action is auto_approve from 95,
\* approve_with_notification from 85 to below 95, manual_review_required
\* from 70 to below 85, reject_and_investigate below 70.
C26_ActionOfScore ==
    CompleteMatch =>
        LET overall == match.value.matching_details.overall_score
            units == ScoreUnits(overall)
        IN /\ \A i \in 1..6 :
                 /\ (MatchChecks[i].score.num * ScoreUnit) % MatchChecks[i].score.den = 0
                 /\ 0 <= ScoreUnits(MatchChecks[i].score)
                 /\ ScoreUnits(MatchChecks[i].score) <= 100 * ScoreUnit
           /\ 6 * overall.num * ScoreUnit = SumUnits(MatchChecks) * overall.den
           /\ match.value.recommended_action =
                 (IF 95 * overall.den <= overall.num THEN "auto_approve"
                  ELSE IF 85 * overall.den <= overall.num THEN "approve_with_notification"
                  ELSE IF 70 * overall.den <= overall.num THEN "manual_review_required"
                  ELSE "reject_and_investigate")

\* An overall score of exactly 95, auto-approved
C26_Witness ==
    /\ CompleteMatch
    /\ match.value.matching_details.overall_score = [num |-> 95, den |-> 1]
    /\ match.value.recommended_action = "auto_approve"

\* C28: auto_approve is recommended only when each of the six checks
\* reports match = True; an invoice whose total is more than 10 away from
\* the order's, or whose dates are out of sequence, is not auto-approved.
C28_AutoApproveAllMatch ==
    (CompleteMatch /\ match.value.recommended_action = "auto_approve") =>
        /\ \A i \in 1..6 : MatchChecks[i].match
        /\ match.po_df[1].total_amount - match.invoice_df[1].total_amount <= 10
        /\ match.invoice_df[1].total_amount - match.po_df[1].total_amount <= 10
        /\ match.po_df[1].po_date <= match.grn_df[1].receipt_date
        /\ match.grn_df[1].receipt_date <= match.invoice_df[1].invoice_date

\* C30: get_vendor_query(v, q) returns nothing or a response that
\* set_vendor_query stored for exactly that v and that q, as JSON gives it
\* back, whatever set_vendor_query, set_rag_response and
\* set_invoice_followup calls came before.
C30_VendorQueryIsolated ==
    (cache.pc = "returned" /\ ~cache.value.none) =>
        \E call \in cache.stored :
            /\ call[1] = cache.vendor_id
            /\ call[2] = cache.query
            /\ json_loads(json_dumps(call[3])) = cache.value.dict

\* C27: a load_index that returns False leaves the index, the documents
\* and the customer contexts as they were before the call; and between
\* calls of build_vector_index, save_index and load_index the index holds
\* as many vectors as the engine holds documents.
C27_FailedLoadNoEffect ==
    /\ (LoadReturned /\ wret.value = "False" /\ pre.taken) =>
          /\ index = pre.index
          /\ documents = pre.documents
          /\ customer_contexts = pre.customer_contexts
    /\ (wpc = "idle") => Len(index.vectors) = Len(documents)

====
